---------------------------- MODULE Spec2Model ----------------------------
(***************************************************************************)
(* A model of backend/video_stitcher.py: VideoStitcher.stitch_videos and   *)
(* its two strategies, _stitch_simple and _stitch_with_normalization.      *)
(*                                                                         *)
(* A behaviour follows one call, position by position (pc), from an output *)
(* directory that is empty or already holds a file.  The media tool        *)
(* (ffmpeg), the probe (ffprobe) and uuid4 are the environment, whose      *)
(* outcomes are chosen nondeterministically.                               *)
(***************************************************************************)
EXTENDS Integers, Sequences, FiniteSets, TLC

\* ------------------------------------------------------------------ bounds

\* Longest input list enumerated exhaustively over Paths.
MaxLen == 2
\* Number of distinct values uuid4().hex[:8] takes in the model.
NumUuids == 2

\* ------------------------------------------------------- program constants

\* len(input_videos) > 100 is rejected.
MaxInputVideos == 100
\* The aresample filter's target rate.
AudioSampleRate == 48000

\* Python's None where a str, a list or a file name is expected.
None == <<"None">>

\* --------------------------------------------------------- text and bytes
\* A str is a sequence of one-character strings; bytes are a sequence of
\* integers 0..255.

\* str.split(sep) for a one-character separator: the pieces between the
\* separators, empty pieces kept.
RECURSIVE SplitFrom(_, _, _, _)
SplitFrom(s, sep, i, cur) ==
    IF i > Len(s) THEN <<cur>>
    ELSE IF s[i] = sep THEN <<cur>> \o SplitFrom(s, sep, i + 1, <<>>)
    ELSE SplitFrom(s, sep, i + 1, Append(cur, s[i]))

Split(s, sep) == SplitFrom(s, sep, 1, <<>>)

DigitValue(c) ==
    CASE c = "0" -> 0 [] c = "1" -> 1 [] c = "2" -> 2 [] c = "3" -> 3
      [] c = "4" -> 4 [] c = "5" -> 5 [] c = "6" -> 6 [] c = "7" -> 7
      [] c = "8" -> 8 [] c = "9" -> 9 [] OTHER -> -1

RECURSIVE Strip(_)
Strip(s) ==
    IF s = <<>> THEN s
    ELSE IF Head(s) = " " THEN Strip(Tail(s))
    ELSE IF s[Len(s)] = " " THEN Strip(SubSeq(s, 1, Len(s) - 1))
    ELSE s

RECURSIVE DigitsValue(_, _)
DigitsValue(s, acc) ==
    IF s = <<>> THEN acc
    ELSE DigitsValue(Tail(s), acc * 10 + DigitValue(Head(s)))

\* int(s) for a str of the model's alphabet: surrounding blanks stripped, an
\* optional sign, then one or more decimal digits; anything else is a
\* ValueError.  [ok, value].
PyInt(s) ==
    LET t == Strip(s)
        signed == t # <<>> /\ Head(t) \in {"-", "+"}
        digits == IF signed THEN Tail(t) ELSE t
        good   == digits # <<>> /\ \A i \in 1..Len(digits) : DigitValue(digits[i]) >= 0
    IN  IF ~good THEN [ok |-> FALSE, value |-> 0]
        ELSE [ok |-> TRUE,
              value |-> IF signed /\ Head(t) = "-"
                        THEN 0 - DigitsValue(digits, 0)
                        ELSE DigitsValue(digits, 0)]

\* Number of continuation bytes a UTF-8 lead byte announces; -1 for a byte
\* that cannot start a character.
Utf8Follow(b) ==
    IF b < 128 THEN 0
    ELSE IF b >= 194 /\ b <= 223 THEN 1
    ELSE IF b >= 224 /\ b <= 239 THEN 2
    ELSE IF b >= 240 /\ b <= 244 THEN 3
    ELSE -1

\* bytes.decode(): whether the bytes are well-formed UTF-8 (lead bytes and
\* the number of continuation bytes; overlong forms are not distinguished).
RECURSIVE Utf8Valid(_)
Utf8Valid(bs) ==
    IF bs = <<>> THEN TRUE
    ELSE LET k == Utf8Follow(Head(bs))
         IN  /\ k >= 0
             /\ Len(bs) >= k + 1
             /\ \A i \in 2..(k + 1) : bs[i] >= 128 /\ bs[i] <= 191
             /\ Utf8Valid(SubSeq(bs, k + 2, Len(bs)))

\* The decoded text, kept as the tagged byte string it was decoded from.
Decode(bs) == [ok |-> Utf8Valid(bs), text |-> <<"str", bs>>]

GCD(a, b) ==
    IF a = 0 /\ b = 0 THEN 0
    ELSE CHOOSE g \in 1..(IF a > b THEN a ELSE b) + 1 :
            /\ (a % g = 0) /\ (b % g = 0)
            /\ \A h \in 1..(IF a > b THEN a ELSE b) + 1 :
                  ((a % h = 0) /\ (b % h = 0)) => h <= g

\* eval("n/d") of ffprobe's r_frame_rate, a pair <<n, d>>: Python's true
\* division, a ZeroDivisionError when d = 0.  The float is kept as the
\* fraction in lowest terms.  [ok, value].
EvalFrameRate(r) ==
    IF r[2] = 0 THEN [ok |-> FALSE, value |-> <<0, 1>>]
    ELSE LET g == GCD(r[1], r[2])
         IN  [ok |-> TRUE, value |-> <<r[1] \div g, r[2] \div g>>]


\* ------------------------------------------------------------------ paths
\* A path is a sequence of components; an absolute path starts with "/".

\* The process's working directory.
Cwd == <<"/", "app">>

RECURSIVE NormFrom(_, _)
NormFrom(p, acc) ==
    IF p = <<>> THEN acc
    ELSE IF Head(p) = "." THEN NormFrom(Tail(p), acc)
    ELSE IF Head(p) = ".."
         THEN NormFrom(Tail(p), IF Len(acc) > 1 THEN SubSeq(acc, 1, Len(acc) - 1) ELSE acc)
    ELSE NormFrom(Tail(p), Append(acc, Head(p)))

\* os.path.abspath: joined to the working directory unless absolute, then
\* "." dropped and ".." resolved.
AbsPath(video) ==
    IF video # <<>> /\ Head(video) = "/" THEN NormFrom(Tail(video), <<"/">>)
    ELSE NormFrom(video, Cwd)

PathA       == <<"videos", "a.mp4">>
PathB       == <<"/", "data", "b.mp4">>
PathSong    == <<"videos", "..", "song.m4a">>
PathBad     == <<"/", "data", "bad.mp4">>
PathStill   == <<".", "still.mp4">>
PathMissing == <<"videos", "missing.mp4">>

Paths == {PathA, PathB, PathSong, PathBad, PathStill, PathMissing}

VideoStream(codec, w, h, rate) ==
    [codec_type |-> "video", codec_name |-> codec, width |-> w, height |-> h,
     r_frame_rate |-> rate]

AudioStream(codec) == [codec_type |-> "audio", codec_name |-> codec]

\* What ffprobe reports for a file: ok is FALSE when ffprobe exits non-zero;
\* format holds the keys ffprobe's JSON holds.
Probed(streams, duration, size) ==
    [ok |-> TRUE, streams |-> streams, format |-> [duration |-> duration, size |-> size]]

Unprobeable == [ok |-> FALSE, streams |-> <<>>, format |-> <<>>]

\* The input files on disk, by absolute path, with what a probe reports.
Media ==
    [p \in {AbsPath(PathA), AbsPath(PathB), AbsPath(PathSong), AbsPath(PathBad),
            AbsPath(PathStill)} |->
        CASE p = AbsPath(PathA) ->
               Probed(<<AudioStream("aac"), VideoStream("h264", 640, 480, <<30, 1>>)>>, 4, 40)
          [] p = AbsPath(PathB) ->
               Probed(<<VideoStream("hevc", 1920, 1080, <<50, 2>>)>>, 6, 90)
          [] p = AbsPath(PathSong) ->
               Probed(<<AudioStream("mp3")>>, 3, 5)
          [] p = AbsPath(PathStill) ->
               Probed(<<VideoStream("mjpeg", 320, 240, <<0, 0>>), AudioStream("aac")>>, 1, 2)
          [] OTHER -> Unprobeable]

\* os.path.exists for an input path.
Exists(video_path) == AbsPath(video_path) \in DOMAIN Media

\* ------------------------------------------------------------- requests

RECURSIVE SeqsUpTo(_, _)
SeqsUpTo(S, n) ==
    IF n = 0 THEN {<<>>}
    ELSE LET shorter == SeqsUpTo(S, n - 1)
         IN  shorter \cup {Append(s, x) : s \in {t \in shorter : Len(t) = n - 1}, x \in S}

\* A list of n paths, all PathA except PathMissing at position missingAt
\* (none when missingAt = 0).
LongList(n, missingAt) == [i \in 1..n |-> IF i = missingAt THEN PathMissing ELSE PathA]

InputLists ==
    SeqsUpTo(Paths, MaxLen)
      \cup {LongList(MaxInputVideos, m) : m \in {0, 1, MaxInputVideos \div 2, MaxInputVideos}}
      \cup {LongList(MaxInputVideos + 1, m) : m \in {0, MaxInputVideos + 1}}

\* output_filename: absent, the empty string, or a name the caller chose.
OutputNames == {None, <<>>, <<"out">>}

\* target_resolution: absent, empty, "32x24", " 32x+24 ", "32", "32xa".
TargetResolutions ==
    {None, <<>>, <<"3", "2", "x", "2", "4">>,
     <<" ", "3", "2", "x", "+", "2", "4", " ">>,
     <<"3", "2">>, <<"3", "2", "x", "a">>}

\* The arguments of one stitch_videos call; the codecs and the preset keep
\* their defaults.
Requests ==
    [input_videos : InputLists, output_filename : OutputNames, normalize : BOOLEAN,
     target_resolution : TargetResolutions,
     video_codec : {"libx264"}, audio_codec : {"aac"}, preset : {"medium"}]

Uuids == 1..NumUuids

\* e.stderr of an ffmpeg.Error: empty, b"E\xc3\xa9" (well-formed UTF-8),
\* b"E\xff" (not UTF-8).
StderrSamples == {<<>>, <<69, 195, 169>>, <<69, 255>>}

\* ------------------------------------------------------------ exceptions

Exc(type, msg) == [type |-> type, msg |-> msg, stderr |-> <<>>]

\* ffmpeg.Error(cmd, stdout, stderr); str(e) is "<cmd> error (see stderr
\* output for detail)".
FfmpegError(cmd, stderr) ==
    [type |-> "ffmpeg.Error", msg |-> <<cmd, " error (see stderr output for detail)">>,
     stderr |-> stderr]

NoExc == Exc("None", <<>>)


\* ----------------------------------------------------------------- state

VARIABLES
    pc,          \* position of the call; "idle" before it, "done" after it
    args,        \* the arguments of the call
    locals,      \* the local variables of stitch_videos and of its strategy
    outDir,      \* self.output_dir: file name -> "written" | "partial"
    dir0,        \* the output directory as the call found it
    tempDir,     \* self.temp_dir: file name -> the lines of the file
    produced,    \* what a probe reports for the file this call's encode wrote
    toolRuns,    \* the media-tool invocations of this call, in order
    probes,      \* the paths this call has probed, in order
    created,     \* the temp files this call has created
    outcome,     \* how the call ended: a returned result or a raised exception
    meta,        \* one call of VideoMetadataExtractor.extract_metadata
    svc,         \* one request to the stitch endpoint of video_service.py
    jobs,        \* video_service.jobs: job id -> job
    videos,      \* the rows of the media manager's videos table
    gen,         \* one call of PromptGenerator.generate_prompts
    db,          \* the media manager's database apart from the videos table
    disk,        \* the files of the video directory: path -> content
    last,        \* the last call made on the media manager, with its result
    thr          \* the threads of the service: requests and background tasks

vars == <<pc, args, locals, outDir, dir0, tempDir, produced, toolRuns, probes, created,
          outcome, meta, svc, jobs, videos, gen, db, disk, last, thr>>

\* The state of the web service and of the catalog behind it.
service == <<svc, jobs, videos>>

\* The catalog behind the videos table, the video files and the callers.
store == <<db, disk, last, thr>>

\* The state of the components other than the stitcher.
outside == <<meta, service, gen, store>>

\* The stitcher's own state.
stitcher == <<pc, args, locals, outDir, dir0, tempDir, produced, toolRuns, probes, created,
              outcome>>

\* No call of extract_metadata has begun.
NoMeta ==
    [pc |-> "idle",
     file |-> [exists |-> FALSE, size |-> 0, probe |-> [kind |-> "fail", data |-> <<>>]],
     metadata |-> <<>>, i |-> 0, caught |-> "None",
     outcome |-> [kind |-> "none", exc |-> "None"]]

\* No request to the stitch endpoint has arrived.
NoRequest ==
    [pc |-> "idle",
     body |-> [json |-> FALSE, has_ids |-> FALSE, video_ids |-> <<>>, normalize |-> TRUE,
               target_resolution |-> None],
     video_paths |-> <<>>, video_metadata |-> <<>>, stitched_job_id |-> None,
     response |-> [status |-> 0, error |-> <<>>, job_id |-> None, input_count |-> 0]]

\* The database before any table has a row.  foreign_keys is the
\* connection's foreign-key enforcement, now the database clock.
NoDb ==
    [foreign_keys |-> FALSE, now |-> 0, video_generation |-> {}, workflows |-> {},
     workflow_videos |-> {}]

\* No call has been made on the media manager.
NoCall ==
    [op |-> "none", args |-> <<>>, error |-> "None", result |-> <<>>,
     before |-> [videos |-> {}, db |-> NoDb, disk |-> <<>>]]

\* No call of generate_prompts has begun.  content is what the API answered,
\* prompts the list the call is working on, result the list it returned.
NoGen ==
    [pc |-> "idle",
     args |-> [system_prompt |-> <<>>, user_prompt |-> <<>>, prompt_count |-> 0],
     api_calls |-> 0,
     content |-> [kind |-> "none", type |-> "null", text |-> <<>>, items |-> <<>>],
     prompts |-> <<>>,
     outcome |-> [kind |-> "none", exc |-> "None", msg |-> "", result |-> <<>>]]

\* A VideoGenerationJob as far as the stitch endpoint reads and writes it.
Job(status, video_path) == [status |-> status, video_path |-> video_path]

\* The in-memory jobs before the request: one whose file is on disk, one
\* whose file is gone, one that has no file yet.
InitialJobs ==
    (<<"job1">> :> Job("completed", <<"videos", "a.mp4">>))
    @@ (<<"job2">> :> Job("completed", <<"videos", "gone.mp4">>))
    @@ (<<"job3">> :> Job("processing", None))

NoLocals ==
    [output_filename |-> None, concat_file |-> None, first_video |-> AudioStream("None"),
     has_audio |-> FALSE, width |-> 0, height |-> 0, fps |-> <<0, 1>>,
     normalized_streams |-> <<>>, exc |-> NoExc]

\* result is <<>> or holds the one dictionary returned.
NoOutcome == [kind |-> "none", exc |-> NoExc, result |-> <<>>]

Raised(e) == [kind |-> "raise", exc |-> e, result |-> <<>>]

Returned(r) == [kind |-> "return", exc |-> NoExc, result |-> <<r>>]

NoArgs ==
    [input_videos |-> <<>>, output_filename |-> None, normalize |-> TRUE,
     target_resolution |-> None, video_codec |-> "libx264", audio_codec |-> "aac",
     preset |-> "medium"]

\* What the output directory may hold when the stitcher is constructed
\* (os.makedirs(..., exist_ok=True)): nothing, or a file an earlier call wrote
\* under a generated name.
InitialOutputDirs == {<<>>, (<<"stitched", 1>> :> "written")}

\* VideoStitcher.__init__: the output directory exists and nothing has run.
Init ==
    /\ pc = "idle"
    /\ args = NoArgs
    /\ locals = NoLocals
    /\ outDir \in InitialOutputDirs
    /\ dir0 = outDir
    /\ tempDir = <<>>
    /\ produced = Unprobeable
    /\ toolRuns = <<>>
    /\ probes = <<>>
    /\ created = {}
    /\ outcome = NoOutcome
    /\ meta = NoMeta
    /\ svc = NoRequest
    /\ jobs = InitialJobs
    /\ videos = {}
    /\ gen = NoGen
    /\ db = NoDb
    /\ disk = <<>>
    /\ last = NoCall
    /\ thr = <<>>

\* A caller invokes stitch_videos.
StartCall ==
    /\ pc = "idle"
    /\ \E a \in Requests : args' = a
    /\ pc' = "validate"
    /\ UNCHANGED <<locals, outDir, dir0, tempDir, produced, toolRuns, probes, created, outcome>>
    /\ UNCHANGED outside

\* ------------------------------------------------------------ validation

\* A slip in the upper check: ">=" for ">".
ValidateInputsOffByOne(input_videos) ==
    IF Len(input_videos) = 0
    THEN Exc("ValueError", <<"At least one input video is required">>)
    ELSE IF Len(input_videos) >= MaxInputVideos
    THEN Exc("ValueError", <<"Too many input videos (max 100)">>)
    ELSE NoExc

\* The two length checks; NoExc when the list passes.
ValidateInputs(input_videos) ==
    IF Len(input_videos) = 0
    THEN Exc("ValueError", <<"At least one input video is required">>)
    ELSE IF Len(input_videos) > MaxInputVideos
    THEN Exc("ValueError", <<"Too many input videos (max 100)">>)
    ELSE NoExc

Validate ==
    /\ pc = "validate"
    /\ LET e == ValidateInputs(args.input_videos)
       IN  IF e # NoExc
           THEN pc' = "done" /\ outcome' = Raised(e)
           ELSE pc' = "exists" /\ outcome' = outcome
    /\ UNCHANGED <<dir0, args, locals, outDir, tempDir, produced, toolRuns, probes, created>>
    /\ UNCHANGED outside

\* A slip in the loop: only the first path is checked.
FirstMissingHeadOnly(input_videos) == IF Exists(input_videos[1]) THEN 0 ELSE 1

\* The loop over input_videos: the index of the first path that does not
\* exist, 0 when all exist.
FirstMissing(input_videos) ==
    IF \A i \in 1..Len(input_videos) : Exists(input_videos[i]) THEN 0
    ELSE CHOOSE i \in 1..Len(input_videos) :
            /\ ~Exists(input_videos[i])
            /\ \A j \in 1..(i - 1) : Exists(input_videos[j])

CheckInputsExist ==
    /\ pc = "exists"
    /\ LET m == FirstMissing(args.input_videos)
       IN  IF m # 0
           THEN /\ pc' = "done"
                /\ outcome' = Raised(Exc("FileNotFoundError",
                                  <<"Input video not found: ", args.input_videos[m]>>))
           ELSE pc' = "name" /\ outcome' = outcome
    /\ UNCHANGED <<dir0, args, locals, outDir, tempDir, produced, toolRuns, probes, created>>
    /\ UNCHANGED outside

\* A slip in the branch: the condition inverted.
StrategyInverted(normalize) == IF normalize THEN "simple" ELSE "normalize"

\* "if normalize:" picks the strategy.
Strategy(normalize) == IF normalize THEN "normalize" ELSE "simple"

\* The output file name: generated from uuid4 when output_filename is falsy.
\* output_path is that name in the output directory.
OutputName ==
    /\ pc = "name"
    /\ IF args.output_filename \in {None, <<>>}
       THEN \E u \in Uuids : locals' = [locals EXCEPT !.output_filename = <<"stitched", u>>]
       ELSE locals' = [locals EXCEPT !.output_filename = args.output_filename]
    /\ pc' = Strategy(args.normalize)
    /\ UNCHANGED <<dir0, args, outDir, tempDir, produced, toolRuns, probes, created, outcome>>
    /\ UNCHANGED outside


\* ------------------------------------------------ the media tool and probe
\* ffmpeg and ffprobe are external: what they do with a well-formed request
\* is an assumption about the environment, stated here.

HasStream(streams, type) == \E i \in 1..Len(streams) : streams[i].codec_type = type

\* next(s for s in streams if s['codec_type'] == 'video'): the index of the
\* first video stream, 0 (StopIteration) when there is none.
FirstVideoIndex(streams) ==
    IF ~HasStream(streams, "video") THEN 0
    ELSE CHOOSE i \in 1..Len(streams) :
            /\ streams[i].codec_type = "video"
            /\ \A j \in 1..(i - 1) : streams[j].codec_type # "video"

\* A file the tool can open and decode, named by an absolute path.
Readable(p) == p \in DOMAIN Media /\ Media[p].ok

RECURSIVE SumOver(_, _, _)
SumOver(S, ps, field) ==
    IF S = {} THEN 0
    ELSE LET p == CHOOSE q \in S : TRUE
             times == Cardinality({i \in 1..Len(ps) : ps[i] = p})
         IN  times * (IF field = "duration" THEN Media[p].format.duration
                      ELSE Media[p].format.size) + SumOver(S \ {p}, ps, field)

\* The sum of a format field over the listed files, each counted as often as
\* it is listed.
SumFormat(ps, field) == SumOver({ps[i] : i \in 1..Len(ps)}, ps, field)

\* The name the encoder's output carries for a requested codec.
CodecName(codec) == IF codec = "libx264" THEN "h264" ELSE codec

Reencode(stream, run) ==
    IF stream.codec_type = "video"
    THEN [stream EXCEPT !.codec_name = CodecName(run.vcodec)]
    ELSE [stream EXCEPT !.codec_name = CodecName(run.acodec)]

\* The concat demuxer can run when the manifest is non-empty and every listed
\* file is readable.
CanConcat(run) ==
    /\ run.manifest # <<>>
    /\ \A i \in 1..Len(run.manifest) : Readable(run.manifest[i][2])

\* The concat demuxer takes its stream layout from the first listed file and
\* plays the files in the listed order.
ConcatOutput(run) ==
    LET ps == [i \in 1..Len(run.manifest) |-> run.manifest[i][2]]
        first == Media[ps[1]]
    IN  Probed([i \in 1..Len(first.streams) |-> Reencode(first.streams[i], run)],
               SumFormat(ps, "duration"), SumFormat(ps, "size"))

\* The filter graph can run when every input is readable, has the streams
\* the graph refers to, and all segments are scaled and retimed alike.
CanFilter(run) ==
    /\ run.streams # <<>>
    /\ \A i \in 1..Len(run.streams) :
          LET st == run.streams[i]
          IN  /\ Readable(AbsPath(st.path))
              /\ HasStream(Media[AbsPath(st.path)].streams, st.kind)
              /\ st.kind = (IF run.a = 1 /\ i % 2 = 0 THEN "audio" ELSE "video")
              /\ st.filters = run.streams[IF st.kind = "video" THEN 1 ELSE 2].filters

\* The concat filter's output: one video stream with the segments' size and
\* rate, and one audio stream when a = 1.
FilterOutput(run) ==
    LET f == run.streams[1].filters
        vs == {i \in 1..Len(run.streams) : run.streams[i].kind = "video"}
        ps == [k \in 1..Cardinality(vs) |->
                 AbsPath(run.streams[CHOOSE i \in vs :
                            Cardinality({j \in vs : j < i}) = k - 1].path)]
        video == VideoStream(CodecName(run.vcodec), f[1][2], f[1][3], f[3][2])
    IN  Probed(IF run.a = 1 THEN <<video, AudioStream(CodecName(run.acodec))>>
               ELSE <<video>>,
               SumFormat(ps, "duration"), SumFormat(ps, "size"))

\* Exit status 0 does not promise a file the probe accepts: the file may be
\* as requested, lack a container duration, or be unreadable.
EncodedVariants(full) ==
    {full, [full EXCEPT !.format = [size |-> full.format.size]], Unprobeable}

\* overwrite_output().run(...): either the tool exits 0 and the output file
\* is written, or it exits non-zero (ffmpeg.Error with its stderr) and has
\* left the output path alone or holding a partial file.
RunTool(run, can, full) ==
    /\ toolRuns' = Append(toolRuns, run)
    /\ \/ /\ can = TRUE
          /\ outDir' = (run.output :> "written") @@ outDir
          /\ \E f \in EncodedVariants(full) : produced' = f
          /\ locals' = locals
       \/ /\ \E stderr \in StderrSamples :
                locals' = [locals EXCEPT !.exc = FfmpegError("ffmpeg", stderr)]
          /\ \/ outDir' = outDir
             \/ outDir' = (run.output :> "partial") @@ outDir
          /\ produced' = produced


\* os.path.join(self.output_dir, output_filename)
OutputPath(output_filename) == [dir |-> "output_dir", name |-> output_filename]

\* An input path as handed to the probe.
InputPath(video) == [dir |-> "input", name |-> video]

\* -------------------------------------------------------- _stitch_simple

\* A slip in the loop: the inputs listed last to first.
ConcatLinesReversed(input_videos) ==
    [i \in 1..Len(input_videos) |->
        <<"file", AbsPath(input_videos[Len(input_videos) + 1 - i])>>]

\* The manifest's lines, one per input in the list's order: "file '<abs>'".
ConcatLines(input_videos) ==
    [i \in 1..Len(input_videos) |-> <<"file", AbsPath(input_videos[i])>>]

\* The numbers of lines after which a write to the manifest may fail.
WriteFailPoints(n) == {k \in 0..(n - 1) : k <= 1 \/ k = n - 1}

\* concat_file is named from uuid4; open(concat_file, 'w') and the writes
\* run inside the try.  open may fail (no file), a write may fail part-way
\* (the file holds the lines written so far), or all lines are written.
SimpleManifest ==
    /\ pc = "simple"
    /\ \E u \in Uuids :
         LET concat_file == <<"concat", u>>
             lines == ConcatLines(args.input_videos)
         IN  \/ /\ locals' = [locals EXCEPT !.concat_file = concat_file,
                                            !.exc = Exc("OSError", <<"open">>)]
                /\ pc' = "simple_finally"
                /\ UNCHANGED <<tempDir, created>>
             \/ \E k \in WriteFailPoints(Len(lines)) :
                  /\ locals' = [locals EXCEPT !.concat_file = concat_file,
                                              !.exc = Exc("OSError", <<"write">>)]
                  /\ tempDir' = (concat_file :> SubSeq(lines, 1, k)) @@ tempDir
                  /\ created' = created \cup {concat_file}
                  /\ pc' = "simple_finally"
             \/ /\ locals' = [locals EXCEPT !.concat_file = concat_file]
                /\ tempDir' = (concat_file :> lines) @@ tempDir
                /\ created' = created \cup {concat_file}
                /\ pc' = "simple_run"
    /\ UNCHANGED <<dir0, args, outDir, produced, toolRuns, probes, outcome>>
    /\ UNCHANGED outside

\* ffmpeg.input(concat_file, format='concat', safe=0).output(...).run(...)
SimpleRun ==
    /\ pc = "simple_run"
    /\ LET run == [mode |-> "concat", manifest |-> tempDir[locals.concat_file],
                   streams |-> <<>>, v |-> 1, a |-> 1,
                   output |-> locals.output_filename,
                   vcodec |-> args.video_codec, acodec |-> args.audio_codec,
                   preset |-> args.preset, movflags |-> "faststart", strict |-> "None"]
       IN  RunTool(run, CanConcat(run), ConcatOutput(run))
    /\ pc' = "simple_finally"
    /\ UNCHANGED <<dir0, args, tempDir, probes, created, outcome>>
    /\ UNCHANGED outside

\* A slip in the finally clause: the file is left in place.
RemoveConcatSkipped(dir, concat_file) == dir

\* if os.path.exists(concat_file): os.remove(concat_file)
RemoveConcat(dir, concat_file) == [n \in DOMAIN dir \ {concat_file} |-> dir[n]]

\* The finally clause; then the pending exception propagates to
\* stitch_videos' handlers, or output_path is returned.
SimpleFinally ==
    /\ pc = "simple_finally"
    /\ tempDir' = RemoveConcat(tempDir, locals.concat_file)
    /\ pc' = IF locals.exc # NoExc THEN "except" ELSE "probe_out"
    /\ UNCHANGED <<dir0, args, locals, outDir, produced, toolRuns, probes, created, outcome>>
    /\ UNCHANGED outside

\* -------------------------------------------- _stitch_with_normalization

\* A slip in the index: the last input taken as the reference.
ReferenceIndexLast(input_videos) == Len(input_videos)

\* input_videos[0] is the reference (Python indexes from 0, the model from 1).
ReferenceIndex(input_videos) == 1

\* Probe the first input, take its first video stream and whether it has audio.
NormProbeFirst ==
    /\ pc = "normalize"
    /\ LET path == args.input_videos[ReferenceIndex(args.input_videos)]
           first_probe == Media[AbsPath(path)]
           v == FirstVideoIndex(first_probe.streams)
       IN  /\ probes' = Append(probes, InputPath(path))
           /\ IF ~first_probe.ok
              THEN /\ \E stderr \in StderrSamples :
                        locals' = [locals EXCEPT !.exc = FfmpegError("ffprobe", stderr)]
                   /\ pc' = "except"
              ELSE IF v = 0
              THEN /\ locals' = [locals EXCEPT !.exc = Exc("StopIteration", <<>>)]
                   /\ pc' = "except"
              ELSE /\ locals' = [locals EXCEPT
                                   !.first_video = first_probe.streams[v],
                                   !.has_audio = HasStream(first_probe.streams, "audio")]
                   /\ pc' = "norm_build"
    /\ UNCHANGED <<dir0, args, outDir, tempDir, produced, toolRuns, created, outcome>>
    /\ UNCHANGED outside

\* width, height = map(int, target_resolution.split('x')) when
\* target_resolution is truthy, else the first video stream's size.
\* [ok, width, height, msg]; not ok is a ValueError.
TargetSize(target_resolution, first_video) ==
    IF target_resolution \notin {None, <<>>}
    THEN LET pieces == Split(target_resolution, "x")
             n == Len(pieces)
             bad == {i \in 1..(IF n > 3 THEN 3 ELSE n) : ~PyInt(pieces[i]).ok}
         IN  IF bad # {}
             THEN [ok |-> FALSE, width |-> 0, height |-> 0,
                   msg |-> <<"invalid literal for int() with base 10">>]
             ELSE IF n < 2
             THEN [ok |-> FALSE, width |-> 0, height |-> 0,
                   msg |-> <<"not enough values to unpack (expected 2, got 1)">>]
             ELSE IF n > 2
             THEN [ok |-> FALSE, width |-> 0, height |-> 0,
                   msg |-> <<"too many values to unpack (expected 2)">>]
             ELSE [ok |-> TRUE, width |-> PyInt(pieces[1]).value,
                   height |-> PyInt(pieces[2]).value, msg |-> <<>>]
    ELSE [ok |-> TRUE, width |-> first_video.width, height |-> first_video.height,
          msg |-> <<>>]

\* A slip in the rate: a fixed 30 fps whatever the probe reports.
TargetFpsFixed(first_video) == [ok |-> TRUE, value |-> <<30, 1>>]

\* fps = eval(first_video['r_frame_rate'])
TargetFps(first_video) == EvalFrameRate(first_video.r_frame_rate)

\* A slip in the loop: audio taken only from the clips that have it.
NormalizedStreamsPerClip(input_videos, width, height, fps, has_audio) ==
    LET video(i) == [input |-> i, path |-> input_videos[i], kind |-> "video",
                     filters |-> << <<"scale", width, height>>, <<"setsar", "1/1">>,
                                    <<"fps", fps>> >>]
        audio(i) == [input |-> i, path |-> input_videos[i], kind |-> "audio",
                     filters |-> << <<"aresample", AudioSampleRate>> >>]
        clip(i) == IF has_audio /\ HasStream(Media[AbsPath(input_videos[i])].streams, "audio")
                   THEN <<video(i), audio(i)>> ELSE <<video(i)>>
    IN  IF Len(input_videos) = 1 THEN clip(1)
        ELSE IF Len(input_videos) = 2 THEN clip(1) \o clip(2)
        ELSE [k \in 1..Len(input_videos) |-> video(k)]

\* For every input, in order: its video scaled, made square-pixel and
\* retimed, then, when has_audio, its audio resampled.
NormalizedStreams(input_videos, width, height, fps, has_audio) ==
    LET video(i) == [input |-> i, path |-> input_videos[i], kind |-> "video",
                     filters |-> << <<"scale", width, height>>, <<"setsar", "1/1">>,
                                    <<"fps", fps>> >>]
        audio(i) == [input |-> i, path |-> input_videos[i], kind |-> "audio",
                     filters |-> << <<"aresample", AudioSampleRate>> >>]
    IN  IF has_audio
        THEN [k \in 1..(2 * Len(input_videos)) |->
                 IF k % 2 = 1 THEN video((k + 1) \div 2) ELSE audio(k \div 2)]
        ELSE [k \in 1..Len(input_videos) |-> video(k)]

\* The target size and rate, then the filter graph.
NormBuild ==
    /\ pc = "norm_build"
    /\ LET size == TargetSize(args.target_resolution, locals.first_video)
           rate == TargetFps(locals.first_video)
       IN  IF ~size.ok
           THEN /\ locals' = [locals EXCEPT !.exc = Exc("ValueError", size.msg)]
                /\ pc' = "except"
           ELSE IF ~rate.ok
           THEN /\ locals' = [locals EXCEPT !.width = size.width, !.height = size.height,
                                            !.exc = Exc("ZeroDivisionError",
                                                        <<"division by zero">>)]
                /\ pc' = "except"
           ELSE /\ locals' = [locals EXCEPT
                                !.width = size.width, !.height = size.height,
                                !.fps = rate.value,
                                !.normalized_streams =
                                    NormalizedStreams(args.input_videos, size.width,
                                                      size.height, rate.value,
                                                      locals.has_audio)]
                /\ pc' = "norm_run"
    /\ UNCHANGED <<dir0, args, outDir, tempDir, produced, toolRuns, probes, created, outcome>>
    /\ UNCHANGED outside

\* ffmpeg.concat(*normalized_streams, v=1, a=1|0), the output with or without
\* the audio codec, then overwrite_output().run(...).
NormRun ==
    /\ pc = "norm_run"
    /\ LET run == [mode |-> "filter", manifest |-> <<>>,
                   streams |-> locals.normalized_streams,
                   v |-> 1, a |-> IF locals.has_audio THEN 1 ELSE 0,
                   output |-> locals.output_filename,
                   vcodec |-> args.video_codec,
                   acodec |-> IF locals.has_audio THEN args.audio_codec ELSE "None",
                   preset |-> args.preset, movflags |-> "faststart",
                   strict |-> IF locals.has_audio THEN "experimental" ELSE "None"]
       IN  RunTool(run, CanFilter(run), FilterOutput(run))
    /\ pc' = IF locals'.exc # NoExc THEN "except" ELSE "probe_out"
    /\ UNCHANGED <<dir0, args, tempDir, probes, created, outcome>>
    /\ UNCHANGED outside


\* ------------------------------------------- stitch_videos, after the encode

\* A slip in the result: the inputs counted without repetitions.
ResultCountsDistinct(probe, video_info, output_filename, input_videos) ==
    [output_path |-> [dir |-> "output_dir", name |-> output_filename],
     filename    |-> output_filename,
     duration    |-> probe.format.duration,
     size        |-> probe.format.size,
     resolution  |-> <<video_info.width, "x", video_info.height>>,
     codec       |-> video_info.codec_name,
     input_count |-> Cardinality({input_videos[i] : i \in 1..Len(input_videos)})]

\* The result dictionary built from the probe of the output.
Result(probe, video_info, output_filename, input_videos) ==
    [output_path |-> OutputPath(output_filename),
     filename    |-> output_filename,
     duration    |-> probe.format.duration,
     size        |-> probe.format.size,
     resolution  |-> <<video_info.width, "x", video_info.height>>,
     codec       |-> video_info.codec_name,
     input_count |-> Len(input_videos)]

\* A slip after the encode: the result built without probing the output.
ProbeOutputSkipped ==
    /\ pc = "probe_out"
    /\ outcome' = Returned([output_path |-> OutputPath(locals.output_filename),
                            filename |-> locals.output_filename,
                            input_count |-> Len(args.input_videos)])
    /\ pc' = "done"
    /\ UNCHANGED <<dir0, args, locals, outDir, tempDir, produced, toolRuns, probes, created>>
    /\ UNCHANGED outside

\* probe = ffmpeg.probe(output_path), the first video stream, the result.
ProbeOutput ==
    /\ pc = "probe_out"
    /\ probes' = Append(probes, OutputPath(locals.output_filename))
    /\ LET probe == produced
           v == FirstVideoIndex(probe.streams)
       IN  IF ~probe.ok
           THEN /\ \E stderr \in StderrSamples :
                     locals' = [locals EXCEPT !.exc = FfmpegError("ffprobe", stderr)]
                /\ pc' = "except"
                /\ outcome' = outcome
           ELSE IF v = 0
           THEN /\ locals' = [locals EXCEPT !.exc = Exc("StopIteration", <<>>)]
                /\ pc' = "except"
                /\ outcome' = outcome
           ELSE IF "duration" \notin DOMAIN probe.format
           THEN /\ locals' = [locals EXCEPT !.exc = Exc("KeyError", <<"duration">>)]
                /\ pc' = "except"
                /\ outcome' = outcome
           ELSE IF "size" \notin DOMAIN probe.format
           THEN /\ locals' = [locals EXCEPT !.exc = Exc("KeyError", <<"size">>)]
                /\ pc' = "except"
                /\ outcome' = outcome
           ELSE /\ outcome' = Returned(Result(probe, probe.streams[v],
                                              locals.output_filename, args.input_videos))
                /\ pc' = "done"
                /\ locals' = locals
    /\ UNCHANGED <<dir0, args, outDir, tempDir, produced, toolRuns, created>>
    /\ UNCHANGED outside

\* The except clauses: an ffmpeg.Error becomes a RuntimeError carrying
\* e.stderr.decode() when stderr is non-empty, else str(e); decode() itself
\* raises UnicodeDecodeError on bytes that are not UTF-8.  Any other
\* exception is raised again as it is.
HandleError(e) ==
    IF e.type = "ffmpeg.Error"
    THEN IF e.stderr # <<>>
         THEN IF Decode(e.stderr).ok
              THEN Exc("RuntimeError", <<"Video stitching failed: ", Decode(e.stderr).text>>)
              ELSE Exc("UnicodeDecodeError", <<"'utf-8' codec can't decode">>)
         ELSE Exc("RuntimeError", <<"Video stitching failed: ", e.msg>>)
    ELSE e

Except ==
    /\ pc = "except"
    /\ outcome' = Raised(HandleError(locals.exc))
    /\ pc' = "done"
    /\ UNCHANGED <<dir0, args, locals, outDir, tempDir, produced, toolRuns, probes, created>>
    /\ UNCHANGED outside

Next ==
    \/ StartCall
    \/ Validate
    \/ CheckInputsExist
    \/ OutputName
    \/ SimpleManifest
    \/ SimpleRun
    \/ SimpleFinally
    \/ NormProbeFirst
    \/ NormBuild
    \/ NormRun
    \/ ProbeOutput
    \/ Except

Spec == Init /\ [][Next]_vars


\* ------------------------------------------------------------- the claims

\* The call has ended by raising an exception of this type.
RaisedType(type) == pc = "done" /\ outcome.kind = "raise" /\ outcome.exc.type = type

\* Nothing has been touched: the output directory is as the call found it,
\* no temp file was created, neither the media tool nor the probe has run.
NothingDone ==
    /\ outDir = dir0
    /\ tempDir = <<>>
    /\ created = {}
    /\ toolRuns = <<>>
    /\ probes = <<>>

\* The exception is one of the two raised by the length checks.
IsLengthError(e) ==
    /\ e.type = "ValueError"
    /\ e.msg \in {<<"At least one input video is required">>,
                  <<"Too many input videos (max 100)">>}

\* C1: a call with an empty list or with more than 100 paths ends in a
\* ValueError with nothing done (no output file, no manifest, no tool run);
\* a list of exactly 1 or exactly 100 existing paths is not rejected by the
\* length checks.
C1_LengthValidation ==
    pc \notin {"idle", "validate"} =>
        /\ (Len(args.input_videos) = 0 \/ Len(args.input_videos) > 100) =>
              /\ RaisedType("ValueError")
              /\ IsLengthError(outcome.exc)
              /\ NothingDone
        /\ (/\ Len(args.input_videos) \in {1, 100}
            /\ \A i \in 1..Len(args.input_videos) : Exists(args.input_videos[i])) =>
              ~(pc = "done" /\ outcome.kind = "raise" /\ IsLengthError(outcome.exc))

\* C1's case: a list of 101 paths has been rejected.
C1_Witness == RaisedType("ValueError") /\ Len(args.input_videos) = 101

\* The input paths that do not exist.
MissingPaths ==
    {args.input_videos[i] : i \in {j \in 1..Len(args.input_videos) :
                                      ~Exists(args.input_videos[j])}}

\* C2: a call with 1..100 paths of which one does not exist ends in a
\* FileNotFoundError whose message names that path, with nothing done (no
\* tool run, no probe, no output file, no manifest), wherever the path stands
\* in the list and whichever strategy was asked for.
C2_MissingInputFailsFast ==
    (/\ pc \notin {"idle", "validate", "exists"}
     /\ Len(args.input_videos) \in 1..100
     /\ Cardinality(MissingPaths) = 1) =>
        /\ RaisedType("FileNotFoundError")
        /\ outcome.exc.msg[1] = "Input video not found: "
        /\ outcome.exc.msg[2] \in MissingPaths
        /\ NothingDone

\* C2's case: the second of two paths is the missing one, simple strategy.
C2_Witness ==
    /\ RaisedType("FileNotFoundError")
    /\ Len(args.input_videos) = 2
    /\ Exists(args.input_videos[1])
    /\ ~Exists(args.input_videos[2])
    /\ ~args.normalize

\* C3: every result returned carries an input_count equal to the length of
\* the caller's list.
C3_InputCount ==
    (pc = "done" /\ outcome.kind = "return") =>
        outcome.result[1].input_count = Len(args.input_videos)

\* C3's case: a result was returned for a list that names one file twice.
C3_Witness ==
    /\ pc = "done"
    /\ outcome.kind = "return"
    /\ Len(args.input_videos) = 2
    /\ args.input_videos[1] = args.input_videos[2]


\* The call has returned a result.
HasReturned == pc = "done" /\ outcome.kind = "return"

\* Traces of the simple strategy: a manifest name, a temp file, a concat run.
SimpleEvidence ==
    \/ locals.concat_file # None
    \/ created # {}
    \/ \E i \in 1..Len(toolRuns) : toolRuns[i].mode = "concat"

\* Traces of the normalizing strategy: a probed input, a filter graph, a
\* filter run.
NormEvidence ==
    \/ \E i \in 1..Len(probes) : probes[i].dir = "input"
    \/ locals.normalized_streams # <<>>
    \/ \E i \in 1..Len(toolRuns) : toolRuns[i].mode = "filter"

\* C4: with normalize false the call leaves only traces of the simple
\* strategy (no input probed, no scale/fps/aresample filter built), with
\* normalize true only traces of the normalizing strategy (no manifest); a
\* call that reaches the strategies runs exactly one of them, whatever the
\* other arguments are, and a returned result rests on exactly one tool run.
C4_StrategySelection ==
    /\ ~args.normalize => ~NormEvidence
    /\ args.normalize => (~SimpleEvidence /\ tempDir = <<>>)
    /\ Len(toolRuns) <= 1
    /\ (locals.output_filename # None /\ pc \notin {"simple", "normalize"}) =>
          (SimpleEvidence /\ ~args.normalize) \/ (NormEvidence /\ args.normalize)
    /\ HasReturned => Len(toolRuns) = 1

\* C4's case: a simple-strategy call given a target resolution has returned.
C4_Witness ==
    /\ HasReturned
    /\ ~args.normalize
    /\ args.target_resolution = <<"3", "2", "x", "2", "4">>
    /\ toolRuns[1].mode = "concat"

\* The first video stream of the first input, as the probe reports it.
FirstInputVideo ==
    LET streams == Media[AbsPath(args.input_videos[1])].streams
    IN  streams[FirstVideoIndex(streams)]

\* The video streams of the filter graph built by this call.
GraphVideos ==
    {k \in 1..Len(locals.normalized_streams) : locals.normalized_streams[k].kind = "video"}

\* C5: in the normalizing strategy every clip is scaled to target_resolution
\* when it is supplied ("32x24" is 32 by 24) and otherwise to the size of the
\* first input's video stream, and a returned result reports that size.
C5_TargetResolution ==
    locals.normalized_streams # <<>> =>
        LET t == args.target_resolution
            size == IF t \in {None, <<>>}
                    THEN <<FirstInputVideo.width, FirstInputVideo.height>>
                    ELSE <<32, 24>>
        IN  /\ t \in {None, <<>>, <<"3", "2", "x", "2", "4">>,
                      <<" ", "3", "2", "x", "+", "2", "4", " ">>}
            /\ \A k \in GraphVideos :
                  locals.normalized_streams[k].filters[1] = <<"scale", size[1], size[2]>>
            /\ HasReturned => outcome.result[1].resolution = <<size[1], "x", size[2]>>

\* C5's case: 1920x1080 first, 640x480 second, no target: 1920x1080 returned.
C5_Witness ==
    /\ HasReturned
    /\ args.normalize
    /\ args.target_resolution = None
    /\ args.input_videos = <<PathB, PathA>>
    /\ outcome.result[1].resolution = <<1920, "x", 1080>>

\* Two rates <<n, d>> denote the same number.
SameRate(r, q) == r[2] # 0 /\ q[2] # 0 /\ r[1] * q[2] = q[1] * r[2]

\* C6: in the normalizing strategy every clip is retimed to the first
\* input's frame rate as the probe reports it, and so is the file the encode
\* writes, with or without a target resolution and whatever the later
\* inputs' rates are.
C6_FrameRate ==
    locals.normalized_streams # <<>> =>
        /\ \A k \in GraphVideos :
              /\ locals.normalized_streams[k].filters[3][1] = "fps"
              /\ SameRate(locals.normalized_streams[k].filters[3][2],
                          FirstInputVideo.r_frame_rate)
        /\ (produced.ok /\ HasStream(produced.streams, "video")) =>
              SameRate(produced.streams[FirstVideoIndex(produced.streams)].r_frame_rate,
                       FirstInputVideo.r_frame_rate)

\* C6's case: a 25 fps clip first, a 30 fps clip second, a target resolution.
C6_Witness ==
    /\ HasReturned
    /\ args.normalize
    /\ args.target_resolution = <<"3", "2", "x", "2", "4">>
    /\ args.input_videos = <<PathB, PathA>>
    /\ locals.fps = <<25, 1>>

\* C7: the manifest handed to the concat run lists the inputs' absolute paths
\* in the caller's order, and the graph handed to the filter run holds, for
\* each input in the caller's order, its video stream followed by its audio
\* stream when audio is carried; nothing is dropped, repeated or reordered.
C7_InputOrder ==
    \A r \in 1..Len(toolRuns) :
        LET run == toolRuns[r]
            n == Len(args.input_videos)
            per == IF run.a = 1 THEN 2 ELSE 1
        IN  IF run.mode = "concat"
            THEN /\ Len(run.manifest) = n
                 /\ \A i \in 1..n :
                       /\ run.manifest[i] = <<"file", AbsPath(args.input_videos[i])>>
                       /\ run.manifest[i][2][1] = "/"
            ELSE /\ Len(run.streams) = per * n
                 /\ \A i \in 1..n :
                       LET video == run.streams[per * (i - 1) + 1]
                       IN  /\ video.kind = "video"
                           /\ video.input = i
                           /\ video.path = args.input_videos[i]
                           /\ run.a = 1 =>
                                 /\ run.streams[per * i].kind = "audio"
                                 /\ run.streams[per * i].input = i
                                 /\ run.streams[per * i].path = args.input_videos[i]

\* C7's case: the simple strategy has run on two different files.
C7_Witness ==
    /\ HasReturned
    /\ ~args.normalize
    /\ args.input_videos = <<PathB, PathA>>
    /\ Len(toolRuns[1].manifest) = 2

\* C8: once _stitch_simple has exited, by return or by exception, no
\* manifest this call created exists in the temp directory.
C8_ManifestRemoved ==
    pc \in {"except", "probe_out", "done"} =>
        /\ \A f \in created : f \notin DOMAIN tempDir
        /\ locals.concat_file \notin DOMAIN tempDir

\* C8's case: a write to the manifest failed after the file was created.
C8_Witness ==
    /\ RaisedType("OSError")
    /\ outcome.exc.msg = <<"write">>
    /\ created # {}

\* The encode step of this call ended with ffmpeg.Error.
ToolFailed ==
    /\ toolRuns # <<>>
    /\ locals.exc.type = "ffmpeg.Error"
    /\ locals.exc.msg[1] = "ffmpeg"

\* C9: a call whose encode step failed ends with RuntimeError, never with a
\* result, and the message carries the tool's stderr text when there is any.
C9_ToolFailure ==
    (pc = "done" /\ ToolFailed) =>
        /\ outcome.kind = "raise"
        /\ outcome.result = <<>>
        /\ outcome.exc.type = "RuntimeError"
        /\ locals.exc.stderr # <<>> =>
              outcome.exc.msg[2] = <<"str", locals.exc.stderr>>

\* The call got as far as probing the file it produced.
OutputProbed ==
    /\ probes # <<>>
    /\ probes[Len(probes)] = OutputPath(locals.output_filename)

\* C10: a call that fails at the probe of its output (the probe errors, or
\* reports no video stream, no duration or no size) fails with RuntimeError
\* and with no other kind of error.
C10_OutputProbeFailure ==
    (pc = "done" /\ OutputProbed /\ outcome.kind = "raise") =>
        outcome.exc.type = "RuntimeError"

\* C11: a result is returned only when this call's one encode ended without
\* error and wrote the file, and the probe of the output path that followed
\* succeeded and reported a video stream; a failed or partial encode never
\* ends in a returned result.
C11_VerifiedBeforeSuccess ==
    HasReturned =>
        /\ Len(toolRuns) = 1
        /\ toolRuns[1].output = locals.output_filename
        /\ locals.exc = NoExc
        /\ locals.output_filename \in DOMAIN outDir
        /\ outDir[locals.output_filename] = "written"
        /\ OutputProbed
        /\ produced.ok
        /\ HasStream(produced.streams, "video")

\* C11's case: a normalizing call has verified its output and returned.
C11_Witness ==
    /\ HasReturned
    /\ args.normalize
    /\ OutputProbed
    /\ outcome.result[1].codec = "h264"

\* C12: when a call that got as far as the encode fails, a file is at its
\* output path only if it was there, complete, before the call.
C12_NoPartialOutput ==
    (pc = "done" /\ outcome.kind = "raise" /\ toolRuns # <<>>) =>
        (locals.output_filename \in DOMAIN outDir =>
            /\ locals.output_filename \in DOMAIN dir0
            /\ outDir[locals.output_filename] = dir0[locals.output_filename])

\* C13: a generated output name is never the name of a file the output
\* directory already holds, so no call overwrites an earlier call's output.
C13_UniqueOutputName ==
    (args.output_filename \in {None, <<>>} /\ locals.output_filename # None) =>
        locals.output_filename \notin DOMAIN dir0

\* The first input carries an audio stream.
FirstInputHasAudio ==
    HasStream(Media[AbsPath(args.input_videos[1])].streams, "audio")

\* C16: in the normalizing strategy the first input alone decides about
\* audio: when it has an audio stream the graph holds, for every input, an
\* audio stream resampled to 48000 Hz, and the run concatenates audio (a = 1)
\* and encodes it with the audio codec; when it has none the graph refers to
\* no input's audio, the run has a = 0 and no audio codec, and the written
\* file has no audio stream.  No later clip's streams change this.
C16_AudioDecidedByFirstInput ==
    locals.normalized_streams # <<>> =>
        LET g == locals.normalized_streams
            n == Len(args.input_videos)
        IN  /\ locals.has_audio = FirstInputHasAudio
            /\ IF FirstInputHasAudio
               THEN /\ Len(g) = 2 * n
                    /\ \A i \in 1..n :
                          /\ g[2 * i].kind = "audio"
                          /\ g[2 * i].input = i
                          /\ g[2 * i].filters = << <<"aresample", 48000>> >>
               ELSE \A k \in 1..Len(g) : g[k].kind = "video"
            /\ \A r \in 1..Len(toolRuns) :
                  /\ toolRuns[r].streams = g
                  /\ toolRuns[r].a = (IF FirstInputHasAudio THEN 1 ELSE 0)
                  /\ toolRuns[r].acodec =
                        (IF FirstInputHasAudio THEN args.audio_codec ELSE "None")
            /\ produced.ok =>
                  (HasStream(produced.streams, "audio") <=> FirstInputHasAudio)

\* C16's case: the first clip has audio, the second has none, and the run was
\* still asked to take the second clip's audio.
C16_Witness ==
    /\ pc = "done"
    /\ args.normalize
    /\ args.input_videos = <<PathA, PathB>>
    /\ toolRuns # <<>>
    /\ toolRuns[1].a = 1
    /\ toolRuns[1].streams[4].kind = "audio"
    /\ toolRuns[1].streams[4].path = PathB


\* ------------------------------------------------ video_metadata.py
\* VideoMetadataExtractor.extract_metadata, one call per behaviour.

\* A metadata field is null (None) or holds one value.
Null == <<>>

Some(v) == <<v>>

\* The r_frame_rate strings the probe may report.
RateSamples ==
    << <<"3", "0", "/", "1">>,
       <<"3", "0", "0", "0", "0", "/", "1", "0", "0", "1">>,
       <<"2", "5", "/", "2">>,
       <<"0", "/", "1">>,
       <<"0", "/", "0">>,
       <<"3", "0", "/", "0">>,
       <<"3", "0", "/", "-", "1">>,
       <<"3", "0">>,
       <<"a", "/", "1">>,
       <<"1", "/", "2", "/", "3">>,
       <<>> >>

\* The width and height the probe may report.
DimSamples == << <<640, 480>>, <<0, 0>> >>

\* A video stream of ffprobe's JSON; a key is absent when its index is 0.
VideoSample(named, d, r) ==
    ("codec_type" :> "video")
    @@ (IF named THEN ("codec_name" :> "h264") ELSE <<>>)
    @@ (IF d = 0 THEN <<>>
        ELSE ("width" :> DimSamples[d][1]) @@ ("height" :> DimSamples[d][2]))
    @@ (IF r = 0 THEN <<>> ELSE ("r_frame_rate" :> RateSamples[r]))

VideoSamples ==
    {VideoSample(named, d, r) :
        named \in BOOLEAN, d \in 0..Len(DimSamples), r \in 0..Len(RateSamples)}

AudioSamples == {("codec_type" :> "audio") @@ ("codec_name" :> "aac"),
                 ("codec_type" :> "audio")}

\* The stream lists of the probed files: one video stream alone, with an
\* audio stream before or after it, two video streams, and lists with no
\* video stream or with a stream of no declared type.
StreamLists ==
    {<<v>> : v \in VideoSamples}
    \cup {<<v, a>> : v \in VideoSamples, a \in AudioSamples}
    \cup {<<a, VideoSample(TRUE, 1, r)>> : a \in AudioSamples, r \in 0..Len(RateSamples)}
    \cup {<<VideoSample(TRUE, 1, 1), VideoSample(FALSE, 0, r)>> : r \in 0..Len(RateSamples)}
    \cup {<<>>, <<("codec_name" :> "h264")>>}
    \cup {<<a>> : a \in AudioSamples}

\* The format objects of the probed files; the values are strings.
FormatSamples ==
    {<<>>,
     ("duration" :> <<"1", "2">>),
     ("duration" :> <<"1", "2">>) @@ ("bit_rate" :> <<"8", "0", "0">>),
     ("duration" :> <<"N", "/", "A">>) @@ ("bit_rate" :> <<"8", "0", "0">>),
     ("duration" :> <<"1", "2">>) @@ ("bit_rate" :> <<"N", "/", "A">>)}

\* json.loads(result.stdout): an object that may lack either key.
ProbeData ==
    {("format" :> f) @@ ("streams" :> st) : f \in FormatSamples, st \in StreamLists}
    \cup {("streams" :> st) : st \in StreamLists}
    \cup {("format" :> f) : f \in FormatSamples}

\* What subprocess.run(ffprobe ..., check=True) and json.loads give for a
\* file: a non-zero exit, output that is not JSON, or an object.
ProbeOutcomes ==
    {[kind |-> "fail", data |-> <<>>], [kind |-> "garbage", data |-> <<>>]}
    \cup {[kind |-> "json", data |-> d] : d \in ProbeData}

\* The files extract_metadata may be called on.
MetaFiles ==
    {[exists |-> FALSE, size |-> 0, probe |-> [kind |-> "fail", data |-> <<>>]]}
    \cup [exists : {TRUE}, size : {0, 7}, probe : ProbeOutcomes]

\* The metadata dictionary as first built: every field None but size_bytes.
InitialMetadata(size) ==
    [duration_seconds |-> Null, resolution |-> Null, aspect_ratio |-> Null,
     codec |-> Null, fps |-> Null, size_bytes |-> Some(size), bitrate |-> Null,
     audio_codec |-> Null]

\* _gcd: Euclid's loop.
RECURSIVE EuclidGcd(_, _)
EuclidGcd(a, b) == IF b = 0 THEN a ELSE EuclidGcd(b, a % b)

\* round(num / den, 2) for den > 0, in hundredths; the sampled rates have no
\* value halfway between two hundredths.
RoundHundredths(num, den) == (200 * num + den) \div (2 * den)

\* float(s) for the strings of the samples, which hold no point or
\* exponent: the integer they spell, else a ValueError.
PyFloat(s) == PyInt(s)

\* num, den = map(int, r.split('/')) succeeds: two pieces, both integers.
RateUnpacks(r_frame_rate) ==
    LET pieces == Split(r_frame_rate, "/")
    IN  /\ Len(pieces) = 2
        /\ PyInt(pieces[1]).ok
        /\ PyInt(pieces[2]).ok

\* A slip in the FPS block: the ValueError of a malformed rate is not caught
\* there.
ParseFpsUncaught(r_frame_rate) ==
    IF ~RateUnpacks(r_frame_rate) THEN [error |-> "ValueError", fps |-> Null]
    ELSE LET pieces == Split(r_frame_rate, "/")
             num == PyInt(pieces[1]).value
             den == PyInt(pieces[2]).value
         IN  [error |-> "None",
              fps |-> IF den > 0 THEN Some(RoundHundredths(num, den)) ELSE Null]

\* The FPS block: the rate is split at '/', both pieces are read as
\* integers, and fps is set (in hundredths) only when den > 0.  A ValueError
\* (a piece that is no integer, fewer or more than two pieces) is caught
\* there.  fps Null: metadata['fps'] is not assigned; error: what leaves the
\* block.
ParseFps(r_frame_rate) ==
    IF ~RateUnpacks(r_frame_rate) THEN [error |-> "None", fps |-> Null]
    ELSE LET pieces == Split(r_frame_rate, "/")
             num == PyInt(pieces[1]).value
             den == PyInt(pieces[2]).value
         IN  [error |-> "None",
              fps |-> IF den > 0 THEN Some(RoundHundredths(num, den)) ELSE Null]

\* The format block: duration as a float, bit_rate as an int; the first
\* string that does not convert raises ValueError and ends the block.
ExtractFormat(metadata, probe_data) ==
    IF "format" \notin DOMAIN probe_data THEN [error |-> "None", metadata |-> metadata]
    ELSE LET fmt == probe_data.format
             hasD == "duration" \in DOMAIN fmt
             hasB == "bit_rate" \in DOMAIN fmt
             m1 == IF hasD /\ PyFloat(fmt.duration).ok
                   THEN [metadata EXCEPT !.duration_seconds = Some(PyFloat(fmt.duration).value)]
                   ELSE metadata
         IN  IF hasD /\ ~PyFloat(fmt.duration).ok
             THEN [error |-> "ValueError", metadata |-> metadata]
             ELSE IF hasB /\ ~PyInt(fmt.bit_rate).ok
             THEN [error |-> "ValueError", metadata |-> m1]
             ELSE [error |-> "None",
                   metadata |-> IF hasB
                                THEN [m1 EXCEPT !.bitrate = Some(PyInt(fmt.bit_rate).value)]
                                ELSE m1]

\* One pass of the loop over the streams: a video stream gives codec,
\* resolution, aspect ratio and fps, an audio stream gives audio_codec, any
\* other stream nothing.  A width and height of 0 make gcd_val 0 and the
\* floor division raises ZeroDivisionError after resolution was set.
ExtractStream(metadata, stream) ==
    LET type == IF "codec_type" \in DOMAIN stream THEN stream.codec_type ELSE "None"
        named == "codec_name" \in DOMAIN stream
    IN  IF type = "video"
        THEN LET m1 == IF named THEN [metadata EXCEPT !.codec = Some(stream.codec_name)]
                       ELSE metadata
                 sized == "width" \in DOMAIN stream /\ "height" \in DOMAIN stream
                 m2 == IF sized
                       THEN [m1 EXCEPT !.resolution = Some(<<stream.width, "x", stream.height>>)]
                       ELSE m1
                 gcd_val == IF sized THEN EuclidGcd(stream.width, stream.height) ELSE 1
                 m3 == IF sized /\ gcd_val # 0
                       THEN [m2 EXCEPT !.aspect_ratio =
                                Some(<<stream.width \div gcd_val, ":",
                                       stream.height \div gcd_val>>)]
                       ELSE m2
                 rated == "r_frame_rate" \in DOMAIN stream
                 parsed == IF rated THEN ParseFps(stream.r_frame_rate)
                           ELSE [error |-> "None", fps |-> Null]
             IN  IF sized /\ gcd_val = 0
                 THEN [error |-> "ZeroDivisionError", metadata |-> m2]
                 ELSE IF parsed.error # "None"
                 THEN [error |-> parsed.error, metadata |-> m3]
                 ELSE [error |-> "None",
                       metadata |-> IF parsed.fps # Null
                                    THEN [m3 EXCEPT !.fps = parsed.fps] ELSE m3]
        ELSE IF type = "audio"
        THEN [error |-> "None",
              metadata |-> IF named
                           THEN [metadata EXCEPT !.audio_codec = Some(stream.codec_name)]
                           ELSE metadata]
        ELSE [error |-> "None", metadata |-> metadata]

\* A slip in the except clauses: the error raised again after logging.
ReturnPartialRaises(m, metadata, error) ==
    [m EXCEPT !.pc = "done", !.metadata = metadata, !.caught = error,
              !.outcome = [kind |-> "raise", exc |-> error]]

\* Both except clauses log and return the metadata gathered so far.
ReturnPartial(m, metadata, error) ==
    [m EXCEPT !.pc = "done", !.metadata = metadata, !.caught = error,
              !.outcome = [kind |-> "return", exc |-> "None"]]

\* A caller invokes extract_metadata on a file.
MetaCall ==
    /\ meta.pc = "idle"
    /\ \E f \in MetaFiles : meta' = [meta EXCEPT !.pc = "exists", !.file = f]
    /\ UNCHANGED <<stitcher, service, gen, store>>

\* if not video_path.exists(): raise FileNotFoundError; then the dictionary
\* with size_bytes from stat().
MetaCheckExists ==
    /\ meta.pc = "exists"
    /\ IF ~meta.file.exists
       THEN meta' = [meta EXCEPT !.pc = "done",
                                 !.outcome = [kind |-> "raise", exc |-> "FileNotFoundError"]]
       ELSE meta' = [meta EXCEPT !.pc = "probe",
                                 !.metadata = InitialMetadata(meta.file.size)]
    /\ UNCHANGED <<stitcher, service, gen, store>>

\* subprocess.run(..., check=True) and json.loads(result.stdout).
MetaProbe ==
    /\ meta.pc = "probe"
    /\ meta' = IF meta.file.probe.kind = "fail"
               THEN ReturnPartial(meta, meta.metadata, "CalledProcessError")
               ELSE IF meta.file.probe.kind = "garbage"
               THEN ReturnPartial(meta, meta.metadata, "JSONDecodeError")
               ELSE [meta EXCEPT !.pc = "format"]
    /\ UNCHANGED <<stitcher, service, gen, store>>

MetaFormat ==
    /\ meta.pc = "format"
    /\ LET r == ExtractFormat(meta.metadata, meta.file.probe.data)
       IN  meta' = IF r.error # "None" THEN ReturnPartial(meta, r.metadata, r.error)
                   ELSE [meta EXCEPT !.pc = "streams", !.metadata = r.metadata, !.i = 1]
    /\ UNCHANGED <<stitcher, service, gen, store>>

\* if 'streams' in probe_data: the streams the loop visits.
StreamsOf(probe_data) ==
    IF "streams" \in DOMAIN probe_data THEN probe_data.streams ELSE <<>>

MetaStream ==
    /\ meta.pc = "streams"
    /\ meta.i <= Len(StreamsOf(meta.file.probe.data))
    /\ LET r == ExtractStream(meta.metadata, StreamsOf(meta.file.probe.data)[meta.i])
       IN  meta' = IF r.error # "None" THEN ReturnPartial(meta, r.metadata, r.error)
                   ELSE [meta EXCEPT !.metadata = r.metadata, !.i = meta.i + 1]
    /\ UNCHANGED <<stitcher, service, gen, store>>

\* return metadata, after the last stream or when there is no 'streams' key.
MetaReturn ==
    /\ meta.pc = "streams"
    /\ meta.i > Len(StreamsOf(meta.file.probe.data))
    /\ meta' = [meta EXCEPT !.pc = "done", !.outcome = [kind |-> "return", exc |-> "None"]]
    /\ UNCHANGED <<stitcher, service, gen, store>>

MetaNext ==
    \/ MetaCall
    \/ MetaCheckExists
    \/ MetaProbe
    \/ MetaFormat
    \/ MetaStream
    \/ MetaReturn

MetaSpec == Init /\ [][MetaNext]_vars

\* extract_metadata has returned a dictionary.
MetaReturned == meta.pc = "done" /\ meta.outcome.kind = "return"

\* The indices of the streams of the given type in the probed file.
StreamsOfType(type) ==
    LET streams == StreamsOf(meta.file.probe.data)
    IN  {i \in 1..Len(streams) :
            "codec_type" \in DOMAIN streams[i] /\ streams[i].codec_type = type}

\* The call ended on a probed file whose format strings are numbers and
\* which has one video stream, with a frame rate and not 0 by 0.
OneRatedVideoStream ==
    /\ meta.pc = "done"
    /\ meta.file.exists
    /\ meta.file.probe.kind = "json"
    /\ \/ "format" \notin DOMAIN meta.file.probe.data
       \/ meta.file.probe.data.format \in
             {<<>>, ("duration" :> <<"1", "2">>),
              ("duration" :> <<"1", "2">>) @@ ("bit_rate" :> <<"8", "0", "0">>)}
    /\ Cardinality(StreamsOfType("video")) = 1
    /\ LET v == meta.file.probe.data.streams[CHOOSE i \in StreamsOfType("video") : TRUE]
       IN  /\ "r_frame_rate" \in DOMAIN v
           /\ "width" \in DOMAIN v => v.width # 0

\* The fps (in hundredths) expected for each sampled rate string; 0/1 as
\* given.  Rates with a zero or negative denominator, and strings that are
\* not two integers around one '/', are expected to leave fps null.
ExpectedFps(r_frame_rate, zeroOverOne) ==
    IF r_frame_rate = <<"3", "0", "/", "1">> THEN Some(3000)
    ELSE IF r_frame_rate = <<"3", "0", "0", "0", "0", "/", "1", "0", "0", "1">> THEN Some(2997)
    ELSE IF r_frame_rate = <<"2", "5", "/", "2">> THEN Some(1250)
    ELSE IF r_frame_rate = <<"0", "/", "1">> THEN zeroOverOne
    ELSE Null

\* On such a file the call returns, fps is as expected for the stream's rate
\* string, and every other field the probe gave is in the result: size,
\* duration, bitrate, the video codec, resolution and aspect ratio, and the
\* codec of an audio stream, also one listed after the video stream.
FrameRateParsing(zeroOverOne) ==
    OneRatedVideoStream =>
        LET data == meta.file.probe.data
            v == data.streams[CHOOSE i \in StreamsOfType("video") : TRUE]
            m == meta.metadata
            fmt == IF "format" \in DOMAIN data THEN data.format ELSE <<>>
        IN  /\ meta.outcome.kind = "return"
            /\ m.fps = ExpectedFps(v.r_frame_rate, zeroOverOne)
            /\ m.size_bytes = Some(meta.file.size)
            /\ m.duration_seconds = (IF "duration" \in DOMAIN fmt THEN Some(12) ELSE Null)
            /\ m.bitrate = (IF "bit_rate" \in DOMAIN fmt THEN Some(800) ELSE Null)
            /\ m.codec = (IF "codec_name" \in DOMAIN v THEN Some("h264") ELSE Null)
            /\ m.resolution = (IF "width" \in DOMAIN v THEN Some(<<640, "x", 480>>) ELSE Null)
            /\ m.aspect_ratio = (IF "width" \in DOMAIN v THEN Some(<<4, ":", 3>>) ELSE Null)
            /\ m.audio_codec =
                  (IF \E i \in StreamsOfType("audio") : "codec_name" \in DOMAIN data.streams[i]
                   THEN Some("aac") ELSE Null)

\* C14 as stated: a rate of "0/1", like a rate with a zero denominator or a
\* malformed rate, leaves fps null, without raising and with every other
\* extracted field kept.
C14_ZeroOverOneIsUnknown == FrameRateParsing(Null)

\* C14 amended: a rate with a zero or negative denominator ("0/0", "30/0",
\* "30/-1") or a malformed rate ("30", "a/1", "1/2/3", "") leaves fps null,
\* without raising and with every other extracted field kept; "0/1" has a
\* positive denominator and gives fps 0.0.
C14_FrameRateParsing == FrameRateParsing(Some(0))

\* C14's case: a video stream of rate "0/0" followed by an audio stream.
C14_Witness ==
    /\ MetaReturned
    /\ meta.file.probe.kind = "json"
    /\ StreamsOf(meta.file.probe.data) =
          <<VideoSample(TRUE, 1, 5), ("codec_type" :> "audio") @@ ("codec_name" :> "aac")>>
    /\ meta.metadata.fps = Null
    /\ meta.metadata.audio_codec = Some("aac")

VideoDir == <<"/", "app", "videos">>

\* pathlib's "/": an absolute right operand stands alone.
JoinPath(dir, p) == IF p # <<>> /\ p[1] = "/" THEN p ELSE dir \o p

\* The ids a request may name: jobs, a file path, file names in VIDEO_DIR,
\* and an id that is none of these.
IdSamples ==
    {<<"job1">>, <<"job2">>, PathB, <<"a.mp4">>, PathSong, <<"nope.mp4">>}

\* The id lists of the requests: up to MaxLen ids, and 101 ids.
IdLists == SeqsUpTo(IdSamples, MaxLen) \cup {[i \in 1..(MaxInputVideos + 1) |-> <<"job1">>]}

\* request.get_json(): no JSON object at all, or an object that may lack
\* 'video_ids'; data.get('normalize', True), data.get('target_resolution').
StitchBodies ==
    {NoRequest.body}
    \cup [json : {TRUE}, has_ids : {FALSE}, video_ids : {<<>>}, normalize : {TRUE},
          target_resolution : {None}]
    \cup [json : {TRUE}, has_ids : {TRUE}, video_ids : IdLists, normalize : BOOLEAN,
          target_resolution : {None, <<"3", "2", "x", "2", "4">>, <<"3", "2">>}]

\* The three-way lookup of one id: the job's file, the id as a path, the id
\* as a file name in VIDEO_DIR.  [ok, path].
ResolveId(video_id) ==
    LET job == IF video_id \in DOMAIN jobs THEN jobs[video_id] ELSE Job("None", None)
    IN  IF job.video_path # None /\ job.video_path # <<>> /\ Exists(job.video_path)
        THEN [ok |-> TRUE, path |-> job.video_path]
        ELSE IF Exists(video_id)
        THEN [ok |-> TRUE, path |-> video_id]
        ELSE IF Exists(JoinPath(VideoDir, video_id))
        THEN [ok |-> TRUE, path |-> JoinPath(VideoDir, video_id)]
        ELSE [ok |-> FALSE, path |-> <<>>]

\* The index of the first id that does not resolve, 0 when all resolve.
FirstUnresolved(video_ids) ==
    IF \A i \in 1..Len(video_ids) : ResolveId(video_ids[i]).ok THEN 0
    ELSE CHOOSE i \in 1..Len(video_ids) :
            /\ ~ResolveId(video_ids[i]).ok
            /\ \A j \in 1..(i - 1) : ResolveId(video_ids[j]).ok

\* isinstance(e, cls) for the exception types of the model.
IsInstance(type, cls) ==
    \/ cls = "Exception"
    \/ type = cls
    \/ cls = "ValueError" /\ type \in {"UnicodeDecodeError", "JSONDecodeError"}
    \/ cls = "OSError" /\ type = "FileNotFoundError"

\* A slip in the except clauses: every error answered as a server error.
ExceptStatusCatchAll(type) == 500

\* The except clauses of the handler, in their order.
ExceptStatus(type) ==
    IF IsInstance(type, "FileNotFoundError") THEN 404
    ELSE IF IsInstance(type, "ValueError") THEN 400
    ELSE IF IsInstance(type, "RuntimeError") THEN 500
    ELSE 500

\* jsonify({'error': ...}), status
ErrorResponse(status, error) ==
    [status |-> status, error |-> error, job_id |-> None, input_count |-> 0]

\* POST /api/videos/stitch arrives.
StitchRequest ==
    /\ svc.pc = "idle"
    /\ pc = "idle"
    /\ \E b \in StitchBodies : svc' = [svc EXCEPT !.pc = "validate", !.body = b]
    /\ UNCHANGED <<stitcher, meta, jobs, videos, gen, store>>

\* data.get on no object raises AttributeError (answered by the last except
\* clause); then the two checks of the id list.
StitchValidate ==
    /\ svc.pc = "validate"
    /\ LET video_ids == svc.body.video_ids
       IN  svc' =
             IF ~svc.body.json
             THEN [svc EXCEPT !.pc = "done",
                      !.response = ErrorResponse(ExceptStatus("AttributeError"),
                                      <<"'NoneType' object has no attribute 'get'">>)]
             ELSE IF Len(video_ids) = 0
             THEN [svc EXCEPT !.pc = "done",
                      !.response = ErrorResponse(400,
                                      <<"video_ids is required and must not be empty">>)]
             ELSE IF Len(video_ids) > MaxInputVideos
             THEN [svc EXCEPT !.pc = "done",
                      !.response = ErrorResponse(400, <<"Too many videos (max 100)">>)]
             ELSE [svc EXCEPT !.pc = "resolve"]
    /\ UNCHANGED <<stitcher, meta, jobs, videos, gen, store>>

\* The loop that resolves every id to a path, answering 404 at the first id
\* that resolves to nothing.
StitchResolve ==
    /\ svc.pc = "resolve"
    /\ LET video_ids == svc.body.video_ids
           m == FirstUnresolved(video_ids)
           video_paths == [i \in 1..Len(video_ids) |-> ResolveId(video_ids[i]).path]
       IN  svc' =
             IF m # 0
             THEN [svc EXCEPT !.pc = "done",
                      !.response = ErrorResponse(404, <<"Video not found: ", video_ids[m]>>)]
             ELSE IF Len(video_paths) = 0
             THEN [svc EXCEPT !.pc = "done",
                      !.response = ErrorResponse(400, <<"No valid video files found">>)]
             ELSE [svc EXCEPT !.pc = "call", !.video_paths = video_paths]
    /\ UNCHANGED <<stitcher, meta, jobs, videos, gen, store>>

\* stitcher.stitch_videos(input_videos=video_paths, normalize=...,
\* target_resolution=...): the other arguments take their defaults.
StitchCall ==
    /\ svc.pc = "call"
    /\ pc = "idle"
    /\ args' = [input_videos |-> svc.video_paths, output_filename |-> None,
                normalize |-> svc.body.normalize,
                target_resolution |-> svc.body.target_resolution,
                video_codec |-> "libx264", audio_codec |-> "aac", preset |-> "medium"]
    /\ pc' = "validate"
    /\ svc' = [svc EXCEPT !.pc = "stitching"]
    /\ UNCHANGED <<locals, outDir, dir0, tempDir, produced, toolRuns, probes, created,
                   outcome, meta, jobs, videos, gen, store>>

\* The stitcher raised: the except clause that matches answers.
StitchFailed ==
    /\ svc.pc = "stitching"
    /\ pc = "done"
    /\ outcome.kind = "raise"
    /\ svc' = [svc EXCEPT !.pc = "done",
                  !.response = ErrorResponse(ExceptStatus(outcome.exc.type), outcome.exc.msg)]
    /\ UNCHANGED <<stitcher, meta, jobs, videos, gen, store>>

\* What extract_metadata gives for the file just written and probed: the
\* fields of a readable file, or the size alone when its probe fails.  (It
\* raises only for a missing path, so the handler's fallback dictionary is
\* not reached.)
OutputMetadata(result) ==
    {InitialMetadata(result.size),
     [InitialMetadata(result.size) EXCEPT
         !.duration_seconds = Some(result.duration),
         !.resolution = Some(result.resolution),
         !.codec = Some(result.codec)]}

\* The stitcher returned: extract the metadata of the stitched file.
StitchMetadata ==
    /\ svc.pc = "stitching"
    /\ pc = "done"
    /\ outcome.kind = "return"
    /\ \E video_metadata \in OutputMetadata(outcome.result[1]) :
          svc' = [svc EXCEPT !.pc = "catalog", !.video_metadata = video_metadata]
    /\ UNCHANGED <<stitcher, meta, jobs, videos, gen, store>>

\* The SHA-256 digests a file may have.
HashSamples == {"h1", "h2"}

\* str(uuid.uuid4()) for the new job: a full uuid, taken to be an id no job
\* and no row has.
NewJobId == <<"job-new">>

\* A row of the videos table.
VideoRow(video_id, name, file_path, file_hash, size_bytes, source_type, vm, metadata) ==
    [id |-> video_id, name |-> name, file_path |-> file_path, file_hash |-> file_hash,
     size_bytes |-> size_bytes, duration_seconds |-> vm.duration_seconds,
     resolution |-> vm.resolution, aspect_ratio |-> vm.aspect_ratio, codec |-> vm.codec,
     fps |-> vm.fps, source_type |-> source_type, metadata |-> metadata]

\* add_video without the duplicate check of lines 190-198.
AddVideoNoDedup(table, row) ==
    IF \/ \E r \in table : r.id = row.id \/ r.file_path = row.file_path
       \/ row.size_bytes = Null
    THEN [error |-> "IntegrityError", is_duplicate |-> FALSE, videos |-> table]
    ELSE [error |-> "None", is_duplicate |-> FALSE, videos |-> table \cup {row}]

\* MediaManager.add_video: a row whose file hash is already in the table is
\* not inserted (the duplicate is reported instead); otherwise the INSERT
\* raises IntegrityError when the id or the file path is already in the
\* table or a NOT NULL column is null.  [error, is_duplicate, videos].
AddVideo(table, row) ==
    IF \E r \in table : r.file_hash = row.file_hash
    THEN [error |-> "None", is_duplicate |-> TRUE, videos |-> table]
    ELSE IF \/ \E r \in table : r.id = row.id \/ r.file_path = row.file_path
            \/ row.size_bytes = Null
    THEN [error |-> "IntegrityError", is_duplicate |-> FALSE, videos |-> table]
    ELSE [error |-> "None", is_duplicate |-> FALSE, videos |-> table \cup {row}]

\* The new job id, then media_manager.add_video(... source_type='stitched'
\* ...) inside try/except: its result is not read and an exception is only
\* logged.
StitchCatalog ==
    /\ svc.pc = "catalog"
    /\ LET result == outcome.result[1]
           vm == svc.video_metadata
           row(h) == VideoRow(NewJobId,
                        <<"Stitched video from ", Len(svc.video_paths), " inputs">>,
                        result.output_path, h, vm.size_bytes, "stitched", vm,
                        Some([input_count |-> Len(svc.video_paths),
                              input_video_ids |-> svc.body.video_ids,
                              normalize |-> svc.body.normalize,
                              target_resolution |-> svc.body.target_resolution]))
       IN  \E h \in HashSamples : videos' = AddVideo(videos, row(h)).videos
    /\ svc' = [svc EXCEPT !.pc = "respond", !.stitched_job_id = NewJobId]
    /\ UNCHANGED <<stitcher, meta, jobs, gen, store>>

\* The legacy job entry and the 200 response.
StitchRespond ==
    /\ svc.pc = "respond"
    /\ jobs' = (svc.stitched_job_id :> Job("completed", outcome.result[1].output_path))
               @@ jobs
    /\ svc' = [svc EXCEPT !.pc = "done",
                  !.response = [status |-> 200, error |-> <<>>,
                                job_id |-> svc.stitched_job_id,
                                input_count |-> outcome.result[1].input_count]]
    /\ UNCHANGED <<stitcher, meta, videos, gen, store>>

\* A row an earlier stitch request left for the file stitched_1.
EarlierRow ==
    VideoRow(<<"job-old">>, <<"Stitched video from ", 1, " inputs">>,
             OutputPath(<<"stitched", 1>>), "h1", Some(40), "stitched", InitialMetadata(40),
             Some([input_count |-> 1, input_video_ids |-> << <<"job1">> >>,
                   normalize |-> FALSE, target_resolution |-> None]))

\* The service as a request finds it: the videos table is empty or holds
\* the row of the earlier file.
StitchInit ==
    /\ pc = "idle"
    /\ args = NoArgs
    /\ locals = NoLocals
    /\ outDir \in InitialOutputDirs
    /\ dir0 = outDir
    /\ tempDir = <<>>
    /\ produced = Unprobeable
    /\ toolRuns = <<>>
    /\ probes = <<>>
    /\ created = {}
    /\ outcome = NoOutcome
    /\ meta = NoMeta
    /\ svc = NoRequest
    /\ jobs = InitialJobs
    /\ videos \in (IF outDir = <<>> THEN {{}} ELSE {{}, {EarlierRow}})
    /\ gen = NoGen
    /\ db = NoDb
    /\ disk = <<>>
    /\ last = NoCall
    /\ thr = <<>>

StitchNext ==
    \/ StitchRequest
    \/ StitchValidate
    \/ StitchResolve
    \/ StitchCall
    \/ Validate
    \/ CheckInputsExist
    \/ OutputName
    \/ SimpleManifest
    \/ SimpleRun
    \/ SimpleFinally
    \/ NormProbeFirst
    \/ NormBuild
    \/ NormRun
    \/ ProbeOutput
    \/ Except
    \/ StitchFailed
    \/ StitchMetadata
    \/ StitchCatalog
    \/ StitchRespond

StitchSpec == StitchInit /\ [][StitchNext]_vars

\* The request has been answered with an error.
StitchRefused == svc.pc = "done" /\ svc.response.status # 200

\* C17: every error response of the stitch endpoint is 400, 404 or 500.  An
\* empty or missing id list and a list of more than 100 ids give 400; an id
\* that resolves to no job file, path or file in VIDEO_DIR gives 404 and the
\* stitcher is never started; when the stitcher raises, a ValueError (such
\* as a malformed target_resolution, and also its subclass
\* UnicodeDecodeError) gives 400, a FileNotFoundError 404, a RuntimeError
\* 500 and anything else 500.
C17_FailureClassification ==
    StitchRefused =>
        LET ids == svc.body.video_ids
            status == svc.response.status
            unresolved == {i \in 1..Len(ids) : ids[i] \in {<<"job2">>, <<"nope.mp4">>}}
        IN  /\ status \in {400, 404, 500}
            /\ (svc.body.json /\ (Len(ids) = 0 \/ Len(ids) > 100)) =>
                  (status = 400 /\ pc = "idle")
            /\ (svc.body.json /\ Len(ids) \in 1..100 /\ unresolved # {}) =>
                  /\ status = 404
                  /\ svc.response.error[2] = ids[CHOOSE i \in unresolved :
                                                    \A j \in unresolved : i <= j]
                  /\ pc = "idle"
                  /\ toolRuns = <<>> /\ probes = <<>> /\ outDir = dir0
            /\ pc # "idle" =>
                  /\ pc = "done" /\ outcome.kind = "raise"
                  /\ outcome.exc.type \in {"ValueError", "UnicodeDecodeError"} => status = 400
                  /\ outcome.exc.type = "FileNotFoundError" => status = 404
                  /\ outcome.exc.type = "RuntimeError" => status = 500
                  /\ outcome.exc.type \notin {"ValueError", "UnicodeDecodeError",
                                              "FileNotFoundError"} => status = 500
            /\ (args.normalize /\ args.target_resolution = <<"3", "2">>
                  /\ locals.first_video.codec_type = "video") => status = 400

\* C17's case: a malformed target_resolution made the stitcher raise
\* ValueError and the request was answered 400.
C17_Witness ==
    /\ StitchRefused
    /\ svc.body.target_resolution = <<"3", "2">>
    /\ pc = "done"
    /\ outcome.kind = "raise"
    /\ outcome.exc.type = "ValueError"
    /\ svc.response.status = 400

\* C18: after a request answered 200 the videos table holds a row whose id
\* is the job_id of the response, whose source_type is 'stitched' and whose
\* metadata carries the request's input count and id list.
C18_StitchedAssetCataloged ==
    (svc.pc = "done" /\ svc.response.status = 200) =>
        \E r \in videos :
            /\ r.id = svc.response.job_id
            /\ r.source_type = "stitched"
            /\ r.metadata # Null
            /\ r.metadata[1].input_count = Len(svc.body.video_ids)
            /\ r.metadata[1].input_video_ids = svc.body.video_ids

\* ===================================================== prompt_generator.py
\* One call of PromptGenerator.generate_prompts.  The API client is the
\* environment: each create() either raises or answers with a message whose
\* content is no text at all, text that is not JSON, or a JSON document.

\* The longest list a response of the model holds.
MaxItems == 3

\* The largest prompt_count generate_prompts accepts.
MaxPromptCount == 50

\* A JSON value as json.loads builds it: a str, an int (text holds its
\* decimal digits), None, a list (items holds its entries) or a dict (items
\* holds its members in document order).
JStr(text) == [type |-> "str", text |-> text, items |-> <<>>]

JInt(text) == [type |-> "int", text |-> text, items |-> <<>>]

JNull == [type |-> "null", text |-> <<>>, items |-> <<>>]

JList(items) == [type |-> "list", text |-> <<>>, items |-> items]

JDict(members) == [type |-> "dict", text |-> <<>>, items |-> members]

Member(key, value) == [key |-> key, value |-> value]

\* The entries a response list is built from: two prompts, one of them with
\* blanks around it, an empty string, a null and a number.
EntrySamples ==
    {JStr(<<"P", "1">>), JStr(<<" ", "P", "2", " ">>), JStr(<<>>), JNull,
     JInt(<<"7">>)}

ListSamples == {JList(items) : items \in SeqsUpTo(EntrySamples, MaxItems)}

OtherList == JList(<<JStr(<<"o", "t", "h", "e", "r">>)>>)

\* The documents the model answers with: a bare list, a dict holding the
\* list under one of the keys the code knows or under another key, dicts
\* with two members, a dict without a list, a dict whose 'prompts' is not a
\* list, and a bare string.
DocumentSamples ==
    ListSamples
    \cup {JDict(<<Member("prompts", l)>>) : l \in ListSamples}
    \cup {JDict(<<Member(k, l)>>) :
            k \in {"episodes", "items", "data"}, l \in {JList(<<>>), OtherList}}
    \cup {JDict(<<Member("note", JStr(<<"x">>)), Member("data", OtherList)>>),
          JDict(<<Member("items", JList(<<JNull>>)), Member("prompts", OtherList)>>),
          JDict(<<Member("data", JList(<<JNull>>)), Member("episodes", OtherList)>>),
          JDict(<<Member("data", JList(<<JNull>>)), Member("items", OtherList)>>),
          JDict(<<Member("note", JStr(<<"x">>))>>),
          JDict(<<Member("prompts", JStr(<<"x">>))>>),
          JStr(<<"x">>)}

\* response.choices[0].message.content: None, text json.loads rejects, or
\* the text of a document (held as the document json.loads builds from it).
Content(kind, doc) == [kind |-> kind, type |-> doc.type, text |-> doc.text, items |-> doc.items]

ContentSamples ==
    {Content("none", JNull), Content("invalid", JNull)}
    \cup {Content("json", doc) : doc \in DocumentSamples}

PromptTextSamples == {<<>>, <<" ", " ">>, <<"s", "y", "s">>}

PromptCountSamples ==
    ((0 - 1) .. (MaxItems + 1)) \cup ((MaxPromptCount - 1) .. (MaxPromptCount + 1))

GenRaised(exc, msg) == [kind |-> "raise", exc |-> exc, msg |-> msg, result |-> <<>>]

GenReturned(result) == [kind |-> "return", exc |-> "None", msg |-> "", result |-> result]

\* "not s or not s.strip()"
IsBlank(s) == s = <<>> \/ Strip(s) = <<>>

\* The validation of lines 78-88 with the strip() calls left out.
ValidateArgsNoStrip(a) ==
    IF a.system_prompt = <<>> THEN "system_prompt cannot be empty"
    ELSE IF a.user_prompt = <<>> THEN "user_prompt cannot be empty"
    ELSE IF a.prompt_count < 1 THEN "prompt_count must be at least 1"
    ELSE IF a.prompt_count > MaxPromptCount THEN "prompt_count cannot exceed 50"
    ELSE ""

\* The message of the ValueError the validation raises, "" when it passes.
ValidateArgs(a) ==
    IF IsBlank(a.system_prompt) THEN "system_prompt cannot be empty"
    ELSE IF IsBlank(a.user_prompt) THEN "user_prompt cannot be empty"
    ELSE IF a.prompt_count < 1 THEN "prompt_count must be at least 1"
    ELSE IF a.prompt_count > MaxPromptCount THEN "prompt_count cannot exceed 50"
    ELSE ""

HasKey(doc, key) == \E i \in 1..Len(doc.items) : doc.items[i].key = key

Lookup(doc, key) ==
    doc.items[CHOOSE i \in 1..Len(doc.items) : doc.items[i].key = key].value

\* next((v for v in parsed_response.values() if isinstance(v, list)), [])
FirstListValue(doc) ==
    LET lists == {i \in 1..Len(doc.items) : doc.items[i].value.type = "list"}
    IN  IF lists = {} THEN JList(<<>>)
        ELSE doc.items[CHOOSE i \in lists : \A j \in lists : i <= j].value

\* The choice of lines 141-155 with the three known keys ignored.
SelectPromptsFirstList(parsed) ==
    IF parsed.type = "list" THEN Some(parsed)
    ELSE IF parsed.type = "dict" THEN Some(FirstListValue(parsed))
    ELSE Null

\* The value the code takes for the prompts: Some(value), or Null where it
\* raises "Unexpected response format".
SelectPrompts(parsed) ==
    IF parsed.type = "list" THEN Some(parsed)
    ELSE IF parsed.type = "dict" THEN
        IF HasKey(parsed, "prompts") THEN Some(Lookup(parsed, "prompts"))
        ELSE IF HasKey(parsed, "episodes") THEN Some(Lookup(parsed, "episodes"))
        ELSE IF HasKey(parsed, "items") THEN Some(Lookup(parsed, "items"))
        ELSE Some(FirstListValue(parsed))
    ELSE Null

\* Lines 161-175: Some(list of prompt_count entries), or Null where the
\* code raises "No valid prompts generated from response".
AdjustCount(prompts, prompt_count) ==
    IF Len(prompts) = prompt_count THEN Some(prompts)
    ELSE IF Len(prompts) < prompt_count THEN
        IF Len(prompts) > 0
        THEN Some(prompts \o [i \in 1..(prompt_count - Len(prompts)) |-> prompts[Len(prompts)]])
        ELSE Null
    ELSE Some(SubSeq(prompts, 1, prompt_count))

\* bool(p)
Truthy(p) ==
    CASE p.type = "str" -> p.text # <<>>
      [] p.type = "int" -> p.text # <<"0">>
      [] p.type = "null" -> FALSE
      [] OTHER -> p.items # <<>>

\* str(p) for a str or an int.
PyStr(p) == p.text

\* [str(p).strip() for p in prompts if p]
RECURSIVE CleanPrompts(_)
CleanPrompts(prompts) ==
    IF prompts = <<>> THEN <<>>
    ELSE IF Truthy(Head(prompts))
    THEN <<Strip(PyStr(Head(prompts)))>> \o CleanPrompts(Tail(prompts))
    ELSE CleanPrompts(Tail(prompts))

GenCall ==
    /\ gen.pc = "idle"
    /\ \E system_prompt \in PromptTextSamples, user_prompt \in PromptTextSamples,
          prompt_count \in PromptCountSamples :
          gen' = [gen EXCEPT !.pc = "validate",
                             !.args = [system_prompt |-> system_prompt,
                                       user_prompt |-> user_prompt,
                                       prompt_count |-> prompt_count]]
    /\ UNCHANGED <<stitcher, meta, service, store>>

\* Lines 77-88.
GenValidate ==
    /\ gen.pc = "validate"
    /\ LET error == ValidateArgs(gen.args)
       IN  IF error # ""
           THEN gen' = [gen EXCEPT !.pc = "done", !.outcome = GenRaised("ValueError", error)]
           ELSE gen' = [gen EXCEPT !.pc = "create"]
    /\ UNCHANGED <<stitcher, meta, service, store>>

\* Lines 106-117: the call with response_format; any exception leads to the
\* second call.
GenCreate ==
    /\ gen.pc = "create"
    /\ \/ \E content \in ContentSamples :
            gen' = [gen EXCEPT !.pc = "parse", !.api_calls = @ + 1, !.content = content]
       \/ gen' = [gen EXCEPT !.pc = "fallback", !.api_calls = @ + 1]
    /\ UNCHANGED <<stitcher, meta, service, store>>

\* Lines 118-130: the call without response_format; its exception reaches
\* the caller through the re-raise of lines 190-192.
GenCreateFallback ==
    /\ gen.pc = "fallback"
    /\ \/ \E content \in ContentSamples :
            gen' = [gen EXCEPT !.pc = "parse", !.api_calls = @ + 1, !.content = content]
       \/ gen' = [gen EXCEPT !.pc = "done", !.api_calls = @ + 1,
                             !.outcome = GenRaised("OpenAIError", "")]
    /\ UNCHANGED <<stitcher, meta, service, store>>

\* Lines 132-159 and 186-188: content.strip(), json.loads and the choice of
\* the list.
GenParse ==
    /\ gen.pc = "parse"
    /\ LET content == gen.content
           selected == SelectPrompts(content)
       IN  IF content.kind = "none"
           THEN gen' = [gen EXCEPT !.pc = "done", !.outcome = GenRaised("AttributeError", "")]
           ELSE IF content.kind = "invalid"
           THEN gen' = [gen EXCEPT !.pc = "done",
                          !.outcome = GenRaised("ValueError", "Invalid JSON response from GPT")]
           ELSE IF selected = Null
           THEN gen' = [gen EXCEPT !.pc = "done",
                          !.outcome = GenRaised("ValueError", "Unexpected response format")]
           ELSE IF selected[1].type # "list"
           THEN gen' = [gen EXCEPT !.pc = "done",
                          !.outcome = GenRaised("ValueError",
                                                "Response does not contain a list of prompts")]
           ELSE gen' = [gen EXCEPT !.pc = "adjust", !.prompts = selected[1].items]
    /\ UNCHANGED <<stitcher, meta, service, store>>

\* Lines 161-175.
GenAdjust ==
    /\ gen.pc = "adjust"
    /\ LET adjusted == AdjustCount(gen.prompts, gen.args.prompt_count)
       IN  IF adjusted = Null
           THEN gen' = [gen EXCEPT !.pc = "done",
                          !.outcome = GenRaised("ValueError",
                                                "No valid prompts generated from response")]
           ELSE gen' = [gen EXCEPT !.pc = "clean", !.prompts = adjusted[1]]
    /\ UNCHANGED <<stitcher, meta, service, store>>

\* Lines 177-184.
GenReturn ==
    /\ gen.pc = "clean"
    /\ LET prompts == CleanPrompts(gen.prompts)
       IN  IF prompts = <<>>
           THEN gen' = [gen EXCEPT !.pc = "done",
                          !.outcome = GenRaised("ValueError", "No valid prompts generated")]
           ELSE gen' = [gen EXCEPT !.pc = "done", !.outcome = GenReturned(prompts)]
    /\ UNCHANGED <<stitcher, meta, service, store>>

GenNext ==
    \/ GenCall
    \/ GenValidate
    \/ GenCreate
    \/ GenCreateFallback
    \/ GenParse
    \/ GenAdjust
    \/ GenReturn

GenSpec == Init /\ [][GenNext]_vars

\* ------------------------------------------------- claims on GenSpec

\* The list the response holds for the call: the items of the list the code
\* selects from the document, <<>> when there is no document or no list.
ResponseList ==
    IF gen.content.kind # "json" THEN <<>>
    ELSE LET selected == SelectPrompts(gen.content)
         IN  IF selected # Null /\ selected[1].type = "list" THEN selected[1].items
             ELSE <<>>

\* C19: whenever the response holds a non-empty list the call returns
\* exactly prompt_count prompts: entry i of the result is entry i of the
\* list (as text, blanks around it stripped) while the list lasts and the
\* list's last entry after that.
C19_ExactlyPromptCount ==
    (gen.pc = "done" /\ ResponseList # <<>>) =>
        /\ gen.outcome.kind = "return"
        /\ Len(gen.outcome.result) = gen.args.prompt_count
        /\ \A i \in 1..gen.args.prompt_count :
              gen.outcome.result[i] =
                  Strip(ResponseList[IF i <= Len(ResponseList) THEN i
                                     ELSE Len(ResponseList)].text)

\* C20: a call whose system_prompt or user_prompt is empty or all blanks, or
\* whose prompt_count is below 1 or above 50, ends in ValueError with the
\* API client never called; a call with any other arguments does not end
\* before the API client is called.
C20_ArgumentValidation ==
    LET a == gen.args
        blank(s) == \A i \in 1..Len(s) : s[i] = " "
        invalid == \/ blank(a.system_prompt)
                   \/ blank(a.user_prompt)
                   \/ a.prompt_count < 1
                   \/ a.prompt_count > MaxPromptCount
    IN  gen.pc # "idle" =>
            IF invalid
            THEN /\ gen.api_calls = 0
                 /\ gen.pc \in {"validate", "done"}
                 /\ gen.pc = "done" =>
                       gen.outcome.kind = "raise" /\ gen.outcome.exc = "ValueError"
            ELSE gen.pc = "done" => gen.api_calls >= 1

\* C20's case: a call with blank-only system_prompt was refused before any
\* API call.
C20_Witness ==
    /\ gen.pc = "done"
    /\ gen.args.system_prompt = <<" ", " ">>
    /\ gen.args.prompt_count \in 1..MaxPromptCount
    /\ gen.outcome.kind = "raise"
    /\ gen.outcome.exc = "ValueError"
    /\ gen.api_calls = 0

\* C21: a bare list is taken as the prompts; from an object the prompts are
\* the value under 'prompts', else under 'episodes', else under 'items', else
\* the first value that is a list; an object without a list value, a value
\* that is neither list nor object, and content that is not JSON each end
\* the call in ValueError, never in a returned list.
C21_ResponseShapes ==
    LET c == gen.content
        lists == {i \in 1..Len(c.items) : c.items[i].value.type = "list"}
        known == {k \in {"prompts", "episodes", "items"} : HasKey(c, k)}
        chosen == IF "prompts" \in known THEN Lookup(c, "prompts")
                  ELSE IF "episodes" \in known THEN Lookup(c, "episodes")
                  ELSE IF "items" \in known THEN Lookup(c, "items")
                  ELSE IF lists # {}
                       THEN c.items[CHOOSE i \in lists : \A j \in lists : i <= j].value
                       ELSE JList(<<>>)
        failed(msgs) == /\ gen.outcome.kind = "raise"
                        /\ gen.outcome.exc = "ValueError"
                        /\ gen.outcome.msg \in msgs
                        /\ gen.outcome.result = <<>>
    IN  /\ gen.pc = "adjust" =>
              /\ c.kind = "json"
              /\ c.type \in {"list", "dict"}
              /\ c.type = "list" => gen.prompts = c.items
              /\ c.type = "dict" => chosen.type = "list" /\ gen.prompts = chosen.items
        /\ (gen.pc = "done" /\ c.kind = "invalid") =>
              failed({"Invalid JSON response from GPT"})
        /\ (gen.pc = "done" /\ c.kind = "json" /\ c.type \notin {"list", "dict"}) =>
              failed({"Unexpected response format"})
        /\ (gen.pc = "done" /\ c.kind = "json" /\ c.type = "dict" /\ lists = {}) =>
              failed(IF known = {} THEN {"No valid prompts generated from response"}
                     ELSE {"Response does not contain a list of prompts"})

\* C21's case: an object with a list under 'items' before its list under
\* 'prompts', and the call went on with the list under 'prompts'.
C21_Witness ==
    /\ gen.pc = "adjust"
    /\ gen.content.type = "dict"
    /\ Len(gen.content.items) = 2
    /\ gen.content.items[1].key = "items"
    /\ gen.content.items[2].key = "prompts"
    /\ gen.prompts = OtherList.items

\* ======================================================== media_manager.py
\* The media manager called by one caller at a time: each call runs to its
\* end before the next begins.  Between calls files appear in the video
\* directory, as the callers save them before they call add_video.

\* The number of calls and file writes in one behaviour.
MaxCalls == 2

VideoIdSamples == {<<"v1">>, <<"v2">>}

FilePathSamples == {<<"videos", "v1.mp4">>, <<"videos", "v2.mp4">>}

WorkflowIdSamples == {"w1", "w2"}

\* The size recorded for every sampled file.
SampleSize == 40

\* A row of workflows; definition is the list of the definition's nodes
\* (json.dumps of the dict), <<>> for {}.
WorkflowRow(id, name, description, status, definition, at) ==
    [id |-> id, name |-> name, description |-> description, status |-> status,
     definition |-> definition, created_at |-> at, updated_at |-> at]

GenerationRow(video_id, provider, prompt) ==
    [video_id |-> video_id, provider |-> provider, prompt |-> prompt, status |-> "completed"]

AssociationRow(workflow_id, video_id, node_id, node_type, role) ==
    [workflow_id |-> workflow_id, video_id |-> video_id, node_id |-> node_id,
     node_type |-> node_type, role |-> role, execution_id |-> Null]

\* The row add_video inserts for a sampled call.
SampleRow(video_id, file_path, file_hash, source_type) ==
    VideoRow(video_id, <<"Test Video">>, file_path, file_hash, Some(SampleSize), source_type,
             InitialMetadata(SampleSize), Null)

\* Foreign-key enforcement is a property of the SQLite build the connection
\* comes from: the code never sets it, so either value is possible.
ForeignKeySettings == BOOLEAN

\* A catalog as earlier calls left it: empty, or one generated video with
\* its generation details, associated with the first of two draft workflows.
InitialCatalogs ==
    {[videos |-> {}, disk |-> <<>>, db |-> [NoDb EXCEPT !.foreign_keys = fk]] :
        fk \in ForeignKeySettings}
    \cup
    {[videos |-> {SampleRow(<<"v1">>, <<"videos", "v1.mp4">>, "h1", "generated")},
      disk |-> (<<"videos", "v1.mp4">> :> "h1"),
      db |-> [foreign_keys |-> fk, now |-> 0,
              video_generation |-> {GenerationRow(<<"v1">>, "google", "a prompt")},
              workflows |-> {WorkflowRow("w1", "Test Workflow", Some("A test workflow"),
                                         "draft", <<"node1", "node2">>, 0),
                             WorkflowRow("w2", "Other Workflow", Null, "draft",
                                         <<"node1">>, 0)},
              workflow_videos |-> {AssociationRow("w1", <<"v1">>, "node2", "Sora2Video",
                                                  "output")}]] :
        fk \in ForeignKeySettings}

\* What a call found before it ran.
Snapshot == [videos |-> videos, db |-> db, disk |-> disk]

Called(op, a, error, result) ==
    [op |-> op, args |-> a, error |-> error, result |-> result, before |-> Snapshot]

\* calculate_file_hash: [error, hash]; open() raises FileNotFoundError for a
\* missing file.
CalculateFileHash(files, file_path) ==
    IF file_path \in DOMAIN files
    THEN [error |-> "None", hash |-> files[file_path]]
    ELSE [error |-> "FileNotFoundError", hash |-> ""]

\* find_duplicate_video: the rows fetchone() may return, {} for None.
FindDuplicateVideo(table, file_hash) == {r \in table : r.file_hash = file_hash}

\* The dictionary add_video returns.
AddVideoResult(video_id, is_duplicate, original_id, file_path) ==
    [video_id |-> video_id, is_duplicate |-> is_duplicate, original_id |-> original_id,
     file_path |-> file_path]

\* delete_video: [videos, db, disk] after the call.  The DELETE removes the
\* rows of the related tables only on a connection that enforces foreign
\* keys.
DeleteVideo(table, d, files, video_id, delete_file) ==
    LET rows == {r \in table : r.id = video_id}
        file_paths == {r.file_path : r \in rows}
    IN  IF rows = {} THEN [videos |-> table, db |-> d, disk |-> files]
        ELSE [videos |-> table \ rows,
              db |-> IF d.foreign_keys
                     THEN [d EXCEPT !.video_generation = {g \in @ : g.video_id # video_id},
                                    !.workflow_videos = {w \in @ : w.video_id # video_id}]
                     ELSE d,
              disk |-> IF delete_file
                       THEN [f \in DOMAIN files \ file_paths |-> files[f]]
                       ELSE files]

\* add_generation_details: INSERT OR REPLACE on the primary key video_id.
\* [error, db].
AddGenerationDetails(table, d, row) ==
    IF d.foreign_keys /\ ~\E r \in table : r.id = row.video_id
    THEN [error |-> "IntegrityError", db |-> d]
    ELSE [error |-> "None",
          db |-> [d EXCEPT !.video_generation =
                                {g \in @ : g.video_id # row.video_id} \cup {row}]]

\* associate_video_with_workflow: INSERT OR REPLACE on the primary key
\* (workflow_id, video_id, node_id).  [error, db].
AssociateVideoWithWorkflow(table, d, row) ==
    IF d.foreign_keys /\ (\/ ~\E r \in table : r.id = row.video_id
                          \/ ~\E w \in d.workflows : w.id = row.workflow_id)
    THEN [error |-> "IntegrityError", db |-> d]
    ELSE [error |-> "None",
          db |-> [d EXCEPT !.workflow_videos =
                    {w \in @ : <<w.workflow_id, w.video_id, w.node_id>>
                               # <<row.workflow_id, row.video_id, row.node_id>>}
                    \cup {row}]]

\* create_workflow: [error, db].
CreateWorkflow(d, workflow_id, name, definition, description, status) ==
    IF \E w \in d.workflows : w.id = workflow_id
    THEN [error |-> "IntegrityError", db |-> d]
    ELSE [error |-> "None",
          db |-> [d EXCEPT !.workflows =
                    @ \cup {WorkflowRow(workflow_id, name, description, status, definition,
                                        d.now)}]]

\* update_workflow with the WHERE clause left out: every workflow is updated.
UpdateWorkflowEveryRow(d, workflow_id, name, description, definition, status) ==
    [d EXCEPT !.workflows =
        {[w EXCEPT !.name = IF name # Null /\ name[1] # "" THEN name[1] ELSE @,
                   !.description = IF description # Null THEN description ELSE @,
                   !.definition = IF definition # Null /\ definition[1] # <<>>
                                  THEN definition[1] ELSE @,
                   !.status = IF status # Null /\ status[1] # "" THEN status[1] ELSE @,
                   !.updated_at = d.now] : w \in @}]

\* update_workflow: the database after the call.  An argument is Null for
\* None and Some(value) otherwise.
UpdateWorkflow(d, workflow_id, name, description, definition, status) ==
    [d EXCEPT !.workflows =
        {IF w.id # workflow_id THEN w
         ELSE [w EXCEPT !.name = IF name # Null /\ name[1] # "" THEN name[1] ELSE @,
                        !.description = IF description # Null THEN description ELSE @,
                        !.definition = IF definition # Null /\ definition[1] # <<>>
                                       THEN definition[1] ELSE @,
                        !.status = IF status # Null /\ status[1] # "" THEN status[1]
                                   ELSE @,
                        !.updated_at = d.now] : w \in @}]

\* get_workflow: Null for None, else Some(the workflow with its videos).
\* The videos are the join of videos and workflow_videos, held as a set.
GetWorkflow(table, d, workflow_id) ==
    LET rows == {w \in d.workflows : w.id = workflow_id}
    IN  IF rows = {} THEN Null
        ELSE LET w == CHOOSE r \in rows : TRUE
             IN  Some([id |-> w.id, name |-> w.name, description |-> w.description,
                       status |-> w.status, definition |-> w.definition,
                       created_at |-> w.created_at, updated_at |-> w.updated_at,
                       videos |-> {[video |-> v, node_id |-> a.node_id,
                                    node_type |-> a.node_type, role |-> a.role] :
                                   <<v, a>> \in {x \in table \X d.workflow_videos :
                                                   /\ x[2].workflow_id = workflow_id
                                                   /\ x[1].id = x[2].video_id}}])

\* The arguments update_workflow is called with: status alone, name alone,
\* an empty name, an empty description, an empty definition, and all four.
UpdateSamples ==
    {[name |-> Null, description |-> Null, definition |-> Null, status |-> Some("saved")],
     [name |-> Some("Renamed"), description |-> Null, definition |-> Null, status |-> Null],
     [name |-> Some(""), description |-> Null, definition |-> Null, status |-> Null],
     [name |-> Null, description |-> Some(""), definition |-> Null, status |-> Null],
     [name |-> Null, description |-> Null, definition |-> Some(<<>>), status |-> Null],
     [name |-> Some("Renamed"), description |-> Some("again"),
      definition |-> Some(<<"node9">>), status |-> Some("saved")]}

\* The database clock moves on with every call.
Tick(d) == [d EXCEPT !.now = @ + 1]

\* A caller saves a file in the video directory (video_file.save, a
\* download, an encode), replacing what was there.
SaveFile ==
    /\ db.now < MaxCalls
    /\ \E file_path \in FilePathSamples, content \in HashSamples :
          /\ disk' = (file_path :> content) @@ disk
          /\ last' = Called("save", [file_path |-> file_path], "None", <<>>)
    /\ db' = Tick(db)
    /\ UNCHANGED <<stitcher, meta, service, gen, thr>>

AddVideoCall ==
    /\ db.now < MaxCalls
    /\ \E video_id \in VideoIdSamples, file_path \in FilePathSamples :
          LET a == [video_id |-> video_id, file_path |-> file_path]
              hashed == CalculateFileHash(disk, file_path)
              row == SampleRow(video_id, file_path, hashed.hash, "uploaded")
              duplicates == FindDuplicateVideo(videos, hashed.hash)
              added == AddVideo(videos, row)
          IN  IF hashed.error # "None"
              THEN /\ last' = Called("add_video", a, hashed.error, <<>>)
                   /\ videos' = videos
              ELSE IF added.is_duplicate
              THEN /\ \E duplicate \in duplicates :
                         last' = Called("add_video", a, "None",
                                        AddVideoResult(duplicate.id, TRUE, Some(duplicate.id),
                                                       duplicate.file_path))
                   /\ videos' = videos
              ELSE /\ last' = Called("add_video", a, added.error,
                                     IF added.error = "None"
                                     THEN AddVideoResult(video_id, FALSE, Null, file_path)
                                     ELSE <<>>)
                   /\ videos' = added.videos
    /\ db' = Tick(db)
    /\ UNCHANGED <<stitcher, meta, svc, jobs, gen, disk, thr>>

DeleteVideoCall ==
    /\ db.now < MaxCalls
    /\ \E video_id \in VideoIdSamples, delete_file \in BOOLEAN :
          LET after == DeleteVideo(videos, db, disk, video_id, delete_file)
          IN  /\ videos' = after.videos
              /\ db' = Tick(after.db)
              /\ disk' = after.disk
              /\ last' = Called("delete_video",
                                [video_id |-> video_id, delete_file |-> delete_file],
                                "None", <<>>)
    /\ UNCHANGED <<stitcher, meta, svc, jobs, gen, thr>>

AddGenerationDetailsCall ==
    /\ db.now < MaxCalls
    /\ \E video_id \in VideoIdSamples :
          LET after == AddGenerationDetails(videos, db,
                                            GenerationRow(video_id, "openai", "a prompt"))
          IN  /\ db' = Tick(after.db)
              /\ last' = Called("add_generation_details", [video_id |-> video_id],
                                after.error, <<>>)
    /\ UNCHANGED <<stitcher, meta, service, gen, disk, thr>>

AssociateCall ==
    /\ db.now < MaxCalls
    /\ \E workflow_id \in WorkflowIdSamples, video_id \in VideoIdSamples :
          LET after == AssociateVideoWithWorkflow(videos, db,
                          AssociationRow(workflow_id, video_id, "node3", "VideoStitcher",
                                         "input"))
          IN  /\ db' = Tick(after.db)
              /\ last' = Called("associate_video_with_workflow",
                                [workflow_id |-> workflow_id, video_id |-> video_id],
                                after.error, <<>>)
    /\ UNCHANGED <<stitcher, meta, service, gen, disk, thr>>

CreateWorkflowCall ==
    /\ db.now < MaxCalls
    /\ \E workflow_id \in WorkflowIdSamples :
          LET after == CreateWorkflow(db, workflow_id, "New Workflow", <<"node1">>, Null,
                                      "draft")
          IN  /\ db' = Tick(after.db)
              /\ last' = Called("create_workflow", [workflow_id |-> workflow_id],
                                after.error, <<>>)
    /\ UNCHANGED <<stitcher, meta, service, gen, disk, thr>>

UpdateWorkflowCall ==
    /\ db.now < MaxCalls
    /\ \E workflow_id \in WorkflowIdSamples, u \in UpdateSamples :
          /\ db' = Tick(UpdateWorkflow(db, workflow_id, u.name, u.description, u.definition,
                                       u.status))
          /\ last' = Called("update_workflow",
                            [workflow_id |-> workflow_id, name |-> u.name,
                             description |-> u.description, definition |-> u.definition,
                             status |-> u.status],
                            "None", <<>>)
    /\ UNCHANGED <<stitcher, meta, service, gen, disk, thr>>

\* DELETE /api/workflows/<workflow_id> of video_service.py: 404 for an
\* unknown id; for a known one the handler calls
\* media_manager.delete_workflow, a method MediaManager does not have, and
\* the AttributeError is answered 500.
DeleteWorkflowRequest ==
    /\ db.now < MaxCalls
    /\ \E workflow_id \in WorkflowIdSamples :
          LET existing == GetWorkflow(videos, db, workflow_id)
          IN  last' = Called("DELETE /api/workflows", [workflow_id |-> workflow_id],
                             IF existing = Null THEN "None" ELSE "AttributeError",
                             [status |-> IF existing = Null THEN 404 ELSE 500,
                              success |-> FALSE])
    /\ db' = Tick(db)
    /\ UNCHANGED <<stitcher, meta, service, gen, disk, thr>>

\* Everything but the catalog is at rest.
Quiet ==
    /\ pc = "idle"
    /\ args = NoArgs
    /\ locals = NoLocals
    /\ outDir = <<>>
    /\ dir0 = outDir
    /\ tempDir = <<>>
    /\ produced = Unprobeable
    /\ toolRuns = <<>>
    /\ probes = <<>>
    /\ created = {}
    /\ outcome = NoOutcome
    /\ meta = NoMeta
    /\ svc = NoRequest
    /\ gen = NoGen

CatalogInit ==
    /\ Quiet
    /\ jobs = <<>>
    /\ \E c \in InitialCatalogs : videos = c.videos /\ db = c.db /\ disk = c.disk
    /\ last = NoCall
    /\ thr = <<>>

CatalogNext ==
    \/ SaveFile
    \/ AddVideoCall
    \/ DeleteVideoCall
    \/ AddGenerationDetailsCall
    \/ AssociateCall
    \/ CreateWorkflowCall
    \/ UpdateWorkflowCall
    \/ DeleteWorkflowRequest

CatalogSpec == CatalogInit /\ [][CatalogNext]_vars

\* ----------------------------------------------- claims on CatalogSpec

\* No two rows of videos have the same file_hash.
HashesDistinct == \A r1, r2 \in videos : r1.file_hash = r2.file_hash => r1 = r2

\* The last call was add_video for a file that was on disk.
AddVideoHashed == last.op = "add_video" /\ last.args.file_path \in DOMAIN last.before.disk

\* What add_video did when it last ran on a readable file: the duplicate is
\* reported and nothing inserted when the hash was in the table; otherwise
\* one row is inserted, in every case (keyTaken FALSE) or unless the id or
\* the path was in the table, when IntegrityError is raised and nothing
\* inserted (keyTaken TRUE).
Deduplicates(keyTaken) ==
    AddVideoHashed =>
        LET was == last.before.videos
            hash == last.before.disk[last.args.file_path]
            same == {r \in was : r.file_hash = hash}
            taken == \E r \in was : \/ r.id = last.args.video_id
                                    \/ r.file_path = last.args.file_path
        IN  IF same # {}
            THEN /\ last.error = "None"
                 /\ last.result.is_duplicate
                 /\ \E r \in same : /\ last.result.video_id = r.id
                                    /\ last.result.original_id = Some(r.id)
                 /\ videos = was
            ELSE IF keyTaken /\ taken
            THEN last.error = "IntegrityError" /\ videos = was
            ELSE /\ last.error = "None"
                 /\ ~last.result.is_duplicate
                 /\ last.result.video_id = last.args.video_id
                 /\ \E r \in videos \ was :
                       /\ r.id = last.args.video_id
                       /\ r.file_hash = hash
                       /\ videos = was \cup {r}

\* C22 as stated: add_video reports the duplicate and inserts nothing when
\* the file's hash is in the catalog, otherwise it inserts one row and
\* returns is_duplicate False; no two rows share a file_hash.
C22_Deduplication == Deduplicates(FALSE) /\ HashesDistinct

\* C22 amended: as stated, except that a call whose video_id or file_path
\* is already in the catalog (and whose hash is not) raises IntegrityError
\* and inserts nothing.
C22_DeduplicationUnlessKeyTaken == Deduplicates(TRUE) /\ HashesDistinct

\* C22's case: add_video ran on a file whose hash was in the catalog under
\* another id and reported that row.
C22_Witness ==
    /\ AddVideoHashed
    /\ last.error = "None"
    /\ last.result.is_duplicate
    /\ last.result.video_id # last.args.video_id

\* C23: update_workflow changes no field that was not supplied and no other
\* workflow: after a call with status 'saved' alone get_workflow returns
\* status 'saved' with the name, description, definition and videos it
\* returned before; the other tables and the files are as they were.
C23_UpdateChangesOnlySupplied ==
    last.op = "update_workflow" =>
        LET a == last.args
            was == last.before
            old == GetWorkflow(was.videos, was.db, a.workflow_id)
            new == GetWorkflow(videos, db, a.workflow_id)
        IN  /\ \A w \in was.db.workflows : w.id # a.workflow_id => w \in db.workflows
            /\ {w.id : w \in db.workflows} = {w.id : w \in was.db.workflows}
            /\ Cardinality(db.workflows) = Cardinality(was.db.workflows)
            /\ db.workflow_videos = was.db.workflow_videos
            /\ db.video_generation = was.db.video_generation
            /\ videos = was.videos
            /\ disk = was.disk
            /\ (old = Null) = (new = Null)
            /\ old # Null =>
                  /\ a.name = Null => new[1].name = old[1].name
                  /\ a.description = Null => new[1].description = old[1].description
                  /\ a.definition = Null => new[1].definition = old[1].definition
                  /\ a.status = Null => new[1].status = old[1].status
                  /\ new[1].created_at = old[1].created_at
                  /\ new[1].videos = old[1].videos
                  /\ (a.status = Some("saved") /\ a.name = Null /\ a.description = Null
                        /\ a.definition = Null) => new[1].status = "saved"

\* C23's case: a draft workflow with an associated video was updated with
\* status 'saved' alone.
C23_Witness ==
    /\ last.op = "update_workflow"
    /\ last.args.status = Some("saved")
    /\ last.args.name = Null
    /\ \E w \in last.before.db.workflows :
          w.id = last.args.workflow_id /\ w.status = "draft"
    /\ \E w \in db.workflows : w.id = last.args.workflow_id /\ w.status = "saved"
    /\ \E a \in db.workflow_videos : a.workflow_id = last.args.workflow_id
    /\ Cardinality(db.workflows) > 1

\* The tables and the files are as the last call found them.
NothingChanged ==
    /\ videos = last.before.videos
    /\ db.video_generation = last.before.db.video_generation
    /\ db.workflows = last.before.db.workflows
    /\ db.workflow_videos = last.before.db.workflow_videos
    /\ disk = last.before.disk

\* C24: DELETE /api/workflows/<id> answers an existing workflow with
\* success, after which get_workflow finds nothing under the id while every
\* video row and video file is still there; it answers an unknown id with
\* 404 and changes nothing.
C24_DeleteWorkflowKeepsVideos ==
    last.op = "DELETE /api/workflows" =>
        IF GetWorkflow(last.before.videos, last.before.db, last.args.workflow_id) # Null
        THEN /\ last.result.status = 200
             /\ GetWorkflow(videos, db, last.args.workflow_id) = Null
             /\ videos = last.before.videos
             /\ disk = last.before.disk
        ELSE last.result.status = 404 /\ NothingChanged

\* C25: after delete_video for an existing id no row of videos, of
\* video_generation or of workflow_videos has the id, and with delete_file
\* the video's file is gone; for an unknown id nothing changes.
C25_DeleteVideoCascades ==
    last.op = "delete_video" =>
        LET rows == {r \in last.before.videos : r.id = last.args.video_id}
        IN  IF rows # {}
            THEN /\ ~\E r \in videos : r.id = last.args.video_id
                 /\ ~\E g \in db.video_generation : g.video_id = last.args.video_id
                 /\ ~\E a \in db.workflow_videos : a.video_id = last.args.video_id
                 /\ last.args.delete_file =>
                       \A r \in rows : r.file_path \notin DOMAIN disk
            ELSE NothingChanged

\* ============================================ video_service.py: the jobs
\* The service with its threads: the request handlers and the background
\* task of a generation job.  A handler runs as one step; the background
\* task runs statement by statement, any request in between.  Each kind of
\* request arrives at most once in a behaviour.

GenJobId == <<"g1">>

UploadJobId == <<"u1">>

ProviderSamples == {"google", "openai", "other"}

\* VIDEO_DIR / f"{job_id}.mp4"
VideoFile(job_id) == JoinPath(VideoDir, job_id \o <<".mp4">>)

\* f"/api/videos/{job_id}/download"
DownloadUrl(job_id) == <<"/api/videos/">> \o job_id \o <<"/download">>

\* VideoGenerationJob.__init__.  obj names the object: two records with
\* the same obj are the same Python object.
NewJob(job_id, prompt, provider, settings, created_at, obj) ==
    [job_id |-> job_id, prompt |-> prompt, provider |-> provider, settings |-> settings,
     status |-> "pending", progress |-> 0, error |-> None, video_id |-> None,
     video_path |-> None, video_url |-> None, created_at |-> created_at,
     completed_at |-> None, obj |-> obj]

\* The registry after an attribute of the object job was written: the
\* entry changes when the registry still holds that object.
Publish(registry, job) ==
    IF job.job_id \in DOMAIN registry /\ registry[job.job_id].obj = job.obj
    THEN [registry EXCEPT ![job.job_id] = job]
    ELSE registry

\* jobs[job_id] = job
Register(registry, job_id, job) ==
    [j \in DOMAIN registry \cup {job_id} |-> IF j = job_id THEN job ELSE registry[j]]

\* del jobs[job_id]
Unregister(registry, job_id) == [j \in DOMAIN registry \ {job_id} |-> registry[j]]

\* Path(p).unlink()
Unlink(files, file_path) == [f \in DOMAIN files \ {file_path} |-> files[f]]

\* The INSERT of add_video, lines 200-231, after the duplicate check:
\* [error, videos].
InsertVideo(table, row) ==
    IF \/ \E r \in table : r.id = row.id \/ r.file_path = row.file_path
       \/ row.size_bytes = Null
    THEN [error |-> "IntegrityError", videos |-> table]
    ELSE [error |-> "None", videos |-> table \cup {row}]

\* What generator.generate returns: success with the provider's job id,
\* or failure with or without an 'error' entry.
GenerateResults ==
    {[success |-> TRUE, has_error |-> FALSE, error |-> <<>>],
     [success |-> FALSE, has_error |-> TRUE, error |-> <<"quota exceeded">>],
     [success |-> FALSE, has_error |-> FALSE, error |-> <<>>]}

\* What a download does: it may write the file (content "" for no file)
\* and returns a boolean.
DownloadResults ==
    {[ok |-> TRUE, content |-> "h1"], [ok |-> TRUE, content |-> "h2"],
     [ok |-> TRUE, content |-> ""], [ok |-> FALSE, content |-> ""]}

\* The background task before it has run.
NewTask(job) ==
    [pc |-> "start", job |-> job, result |-> [success |-> FALSE, has_error |-> FALSE,
                                              error |-> <<>>],
     duplicate |-> FALSE, catalog_error |-> "None", exc |-> "None"]

\* The outer "except Exception" of lines 252-255 with no handler at all:
\* the exception ends the thread.
TaskRaisedUncaught(t, exc) == [t EXCEPT !.pc = "ended", !.exc = exc]

\* An exception raised inside the outer try of _generate_video_async is
\* caught at line 252.
TaskRaised(t, exc) == [t EXCEPT !.pc = "except", !.exc = exc]

\* An exception raised inside the try of lines 213-239 is logged at line
\* 240 and the task goes on to line 244.
CatalogRaised(t, exc) == [t EXCEPT !.pc = "completed", !.catalog_error = exc]

\* POST /api/videos/generate, lines 112-141.
GenerateRequest ==
    /\ "generate" \notin DOMAIN thr
    /\ \E prompt \in {"", "a prompt"}, provider \in ProviderSamples :
          IF prompt = ""
          THEN /\ thr' = ("generate" :> [status |-> 400, job_id |-> None]) @@ thr
               /\ jobs' = jobs
          ELSE LET job == NewJob(GenJobId, prompt, provider, <<>>, "t-generate", "task")
               IN  /\ jobs' = Register(jobs, GenJobId, job)
                   /\ thr' = ("generate" :> [status |-> 202, job_id |-> GenJobId])
                             @@ ("task" :> NewTask(job)) @@ thr
    /\ UNCHANGED <<stitcher, meta, svc, videos, gen, db, disk, last>>

\* The task writes an attribute of its job and goes to the next statement.
TaskWrites(from, field, value, to) ==
    /\ "task" \in DOMAIN thr
    /\ thr["task"].pc = from
    /\ LET job == [thr["task"].job EXCEPT ![field] = value]
       IN  /\ thr' = [thr EXCEPT !["task"].job = job, !["task"].pc = to]
           /\ jobs' = Publish(jobs, job)
    /\ UNCHANGED <<stitcher, meta, svc, videos, gen, db, disk, last>>

\* A step of the task that writes no attribute of the job.
TaskAt(from) == "task" \in DOMAIN thr /\ thr["task"].pc = from

\* Lines 146-148.
TaskStart ==
    /\ TaskAt("start")
    /\ thr' = [thr EXCEPT !["task"].pc = IF thr["task"].job.job_id \in DOMAIN jobs
                                         THEN "processing" ELSE "ended"]
    /\ UNCHANGED <<stitcher, meta, service, gen, db, disk, last>>

\* Line 151.
TaskProcessing == TaskWrites("processing", "status", "processing", "progress10")

\* Line 152.
TaskProgress10 == TaskWrites("progress10", "progress", 10, "construct")

\* Line 156: VideoGenerator(provider=...) returns or raises.
TaskConstruct ==
    /\ TaskAt("construct")
    /\ \/ thr' = [thr EXCEPT !["task"].pc = "progress20"]
       \/ thr' = [thr EXCEPT !["task"] = TaskRaised(@, "ValueError")]
    /\ UNCHANGED <<stitcher, meta, service, gen, db, disk, last>>

\* Line 158.
TaskProgress20 == TaskWrites("progress20", "progress", 20, "generate")

\* Lines 162-164: generator.generate returns or raises.
TaskGenerate ==
    /\ TaskAt("generate")
    /\ \/ \E result \in GenerateResults :
            thr' = [thr EXCEPT !["task"].result = result,
                               !["task"].pc = IF result.success THEN "progress80"
                                              ELSE "generation_failed"]
       \/ thr' = [thr EXCEPT !["task"] = TaskRaised(@, "RuntimeError")]
    /\ UNCHANGED <<stitcher, meta, service, gen, db, disk, last>>

\* Line 165.
TaskGenerationFailed == TaskWrites("generation_failed", "status", "failed", "generation_error")

\* Lines 166-168.
TaskGenerationError ==
    TaskWrites("generation_error", "error",
               IF thr["task"].result.has_error THEN thr["task"].result.error
               ELSE <<"Unknown error">>,
               "ended")

\* Line 170.
TaskProgress80 == TaskWrites("progress80", "progress", 80, "video_id")

\* Line 171.
TaskVideoId == TaskWrites("video_id", "video_id", <<"provider-job">>, "download")

\* Lines 174-192: the download for the job's provider, none for a provider
\* that is neither 'openai' nor 'google', then the check of its result and
\* of the file.
TaskDownload ==
    /\ TaskAt("download")
    /\ LET video_path == VideoFile(thr["task"].job.job_id)
       IN  IF thr["task"].job.provider \notin {"openai", "google"}
           THEN /\ thr' = [thr EXCEPT !["task"].pc = "download_failed"]
                /\ disk' = disk
           ELSE \/ \E d \in DownloadResults :
                     /\ disk' = IF d.content # "" THEN (video_path :> d.content) @@ disk
                                ELSE disk
                     /\ thr' = [thr EXCEPT !["task"].pc =
                                   IF d.ok /\ video_path \in DOMAIN disk'
                                   THEN "add_video" ELSE "download_failed"]
                \/ /\ thr' = [thr EXCEPT !["task"] = TaskRaised(@, "ConnectionError")]
                   /\ disk' = disk
    /\ UNCHANGED <<stitcher, meta, service, gen, db, last>>

\* Line 193.
TaskDownloadFailed == TaskWrites("download_failed", "status", "failed", "download_error")

\* Lines 194-196.
TaskDownloadError ==
    TaskWrites("download_error", "error", <<"Failed to download video">>, "ended")

\* Lines 198-225, as far as add_video's duplicate check (media_manager.py
\* lines 186-198): the metadata (with its fallback, which reads the file
\* size), the file hash, find_duplicate_video.
TaskAddVideo ==
    /\ TaskAt("add_video")
    /\ LET video_path == VideoFile(thr["task"].job.job_id)
           hashed == CalculateFileHash(disk, video_path)
       IN  IF hashed.error # "None"
           THEN thr' = [thr EXCEPT !["task"] = TaskRaised(@, hashed.error)]
           ELSE IF FindDuplicateVideo(videos, hashed.hash) # {}
           THEN thr' = [thr EXCEPT !["task"].duplicate = TRUE, !["task"].pc = "add_details"]
           ELSE thr' = [thr EXCEPT !["task"].pc = "insert"]
    /\ UNCHANGED <<stitcher, meta, service, gen, db, disk, last>>

\* add_video's INSERT, media_manager.py lines 200-231.
TaskInsert ==
    /\ TaskAt("insert")
    /\ LET job_id == thr["task"].job.job_id
           video_path == VideoFile(job_id)
           hashed == CalculateFileHash(disk, video_path)
           row == VideoRow(job_id, <<"Generated: ", thr["task"].job.prompt>>, video_path,
                           hashed.hash, Some(SampleSize), "generated",
                           InitialMetadata(SampleSize), Null)
           inserted == InsertVideo(videos, row)
       IN  /\ videos' = inserted.videos
           /\ thr' = IF inserted.error = "None"
                     THEN [thr EXCEPT !["task"].pc = "add_details"]
                     ELSE [thr EXCEPT !["task"] = CatalogRaised(@, inserted.error)]
    /\ UNCHANGED <<stitcher, meta, svc, jobs, gen, db, disk, last>>

\* Lines 227-241.
TaskAddDetails ==
    /\ TaskAt("add_details")
    /\ LET job == thr["task"].job
           after == AddGenerationDetails(videos, db,
                                         GenerationRow(job.job_id, job.provider, job.prompt))
       IN  /\ db' = after.db
           /\ thr' = IF after.error = "None"
                     THEN [thr EXCEPT !["task"].pc = "completed"]
                     ELSE [thr EXCEPT !["task"] = CatalogRaised(@, after.error)]
    /\ UNCHANGED <<stitcher, meta, service, gen, disk, last>>

\* Line 244.
TaskCompleted == TaskWrites("completed", "status", "completed", "progress100")

\* Line 245.
TaskProgress100 == TaskWrites("progress100", "progress", 100, "video_path")

\* Line 246.
TaskVideoPath ==
    TaskWrites("video_path", "video_path", VideoFile(thr["task"].job.job_id), "video_url")

\* Line 247.
TaskVideoUrl ==
    TaskWrites("video_url", "video_url", DownloadUrl(thr["task"].job.job_id), "completed_at")

\* Lines 248-250.
TaskCompletedAt == TaskWrites("completed_at", "completed_at", <<"t-completed">>, "ended")

\* Line 253.
TaskExcept == TaskWrites("except", "status", "failed", "except_error")

\* Lines 254-255.
TaskExceptError == TaskWrites("except_error", "error", <<thr["task"].exc>>, "ended")

\* The steps of the background task.
TaskNext ==
    \/ TaskStart
    \/ TaskProcessing
    \/ TaskProgress10
    \/ TaskConstruct
    \/ TaskProgress20
    \/ TaskGenerate
    \/ TaskGenerationFailed
    \/ TaskGenerationError
    \/ TaskProgress80
    \/ TaskVideoId
    \/ TaskDownload
    \/ TaskDownloadFailed
    \/ TaskDownloadError
    \/ TaskAddVideo
    \/ TaskInsert
    \/ TaskAddDetails
    \/ TaskCompleted
    \/ TaskProgress100
    \/ TaskVideoPath
    \/ TaskVideoUrl
    \/ TaskCompletedAt
    \/ TaskExcept
    \/ TaskExceptError

\* DELETE /api/videos/<job_id>, lines 307-322.
DeleteJobRequest ==
    /\ "delete" \notin DOMAIN thr
    /\ \E job_id \in {GenJobId, UploadJobId} :
          IF job_id \notin DOMAIN jobs
          THEN /\ thr' = ("delete" :> [status |-> 404, job_id |-> job_id, rows |-> {}]) @@ thr
               /\ UNCHANGED <<jobs, disk>>
          ELSE /\ disk' = IF jobs[job_id].video_path # None
                          THEN Unlink(disk, jobs[job_id].video_path) ELSE disk
               /\ jobs' = Unregister(jobs, job_id)
               /\ thr' = ("delete" :> [status |-> 200, job_id |-> job_id,
                                       rows |-> {r \in videos : r.id = job_id}]) @@ thr
    /\ UNCHANGED <<stitcher, meta, svc, videos, gen, db, last>>

\* POST /api/videos/upload, lines 340-436.  The record of the request keeps
\* the registry as the handler found it.
UploadRequest ==
    /\ "upload" \notin DOMAIN thr
    /\ \E file \in {"none", "unnamed", "sent"}, content \in HashSamples :
          LET new_path == VideoFile(UploadJobId)
              duplicates == FindDuplicateVideo(videos, content)
              row == VideoRow(UploadJobId, <<"upload.mp4">>, new_path, content,
                              Some(SampleSize), "uploaded", InitialMetadata(SampleSize), Null)
              uploaded(job_id, video_path) ==
                  [NewJob(job_id, "Uploaded video", "upload", <<>>, "t-upload", "upload")
                      EXCEPT !.status = "completed", !.progress = 100,
                             !.video_path = video_path, !.video_url = DownloadUrl(job_id),
                             !.completed_at = <<"t-upload">>]
              answer(job_id, is_duplicate) ==
                  "upload" :> [status |-> 200, job_id |-> job_id,
                               is_duplicate |-> is_duplicate, saved |-> new_path,
                               registry |-> jobs]
          IN  IF file # "sent"
              THEN /\ thr' = ("upload" :> [status |-> 400, job_id |-> None,
                                           is_duplicate |-> FALSE, saved |-> None,
                                           registry |-> jobs]) @@ thr
                   /\ UNCHANGED <<jobs, videos, disk>>
              ELSE IF duplicates # {}
              THEN \E duplicate \in duplicates :
                      /\ disk' = disk
                      /\ videos' = videos
                      /\ jobs' = Register(jobs, duplicate.id,
                                          uploaded(duplicate.id, duplicate.file_path))
                      /\ thr' = answer(duplicate.id, TRUE) @@ thr
              ELSE /\ disk' = (new_path :> content) @@ disk
                   /\ videos' = InsertVideo(videos, row).videos
                   /\ jobs' = Register(jobs, UploadJobId, uploaded(UploadJobId, new_path))
                   /\ thr' = answer(UploadJobId, FALSE) @@ thr
    /\ UNCHANGED <<stitcher, meta, svc, gen, db, last>>

ServiceInit ==
    /\ Quiet
    /\ jobs = <<>>
    /\ videos = {}
    /\ db \in {[NoDb EXCEPT !.foreign_keys = fk] : fk \in ForeignKeySettings}
    /\ disk = <<>>
    /\ last = NoCall
    /\ thr = <<>>

ServiceNext ==
    \/ GenerateRequest
    \/ TaskNext
    \/ DeleteJobRequest
    \/ UploadRequest

ServiceSpec == ServiceInit /\ [][ServiceNext]_vars

\* The background thread is scheduled as long as it has a statement to run.
ServiceFairSpec == ServiceSpec /\ WF_vars(TaskNext)

\* ----------------------------------------------- claims on ServiceSpec

\* The place of a status on the way pending -> processing -> completed or
\* failed.
StatusRank(status) ==
    CASE status = "pending" -> 0 [] status = "processing" -> 1 [] OTHER -> 2

\* What a job shows in one state.
JobConsistent(job) ==
    /\ job.status \in {"pending", "processing", "completed", "failed"}
    /\ job.status = "completed" =>
          /\ job.progress = 100
          /\ job.video_path # None
          /\ job.video_url # None
          /\ job.completed_at # None
    /\ job.status = "failed" => job.error # None /\ job.video_url = None

\* What a step may do to the job registered under id.
JobMovesForward(id) ==
    /\ JobConsistent(jobs'[id])
    /\ id \in DOMAIN jobs =>
          /\ StatusRank(jobs'[id].status) >= StatusRank(jobs[id].status)
          /\ jobs[id].status \in {"completed", "failed"} =>
                jobs'[id].status = jobs[id].status
          /\ jobs'[id].progress >= jobs[id].progress
    /\ (/\ jobs'[id].status = "completed"
        /\ jobs'[id].video_path # None
        /\ (id \notin DOMAIN jobs \/ jobs[id].video_path = None)) =>
          jobs'[id].video_path \in DOMAIN disk'

\* C26: a job's status only moves forward from pending over processing to
\* completed or failed, both final; its progress never decreases; a
\* completed job shows progress 100, a video_path whose file existed when
\* the path was set, a video_url and completed_at; a failed job shows an
\* error and no video_url.
C26_JobLifecycle == [][\A id \in DOMAIN jobs' : JobMovesForward(id)]_vars

\* The generation job is registered and neither completed nor failed.
JobPending ==
    /\ "task" \in DOMAIN thr
    /\ GenJobId \in DOMAIN jobs
    /\ jobs[GenJobId].status \in {"pending", "processing"}

\* The background task has ended after the catalog refused its video.
CatalogFailureSurvived ==
    /\ "task" \in DOMAIN thr
    /\ thr["task"].pc = "ended"
    /\ thr["task"].catalog_error # "None"

C28_DeletedJobStaysDeleted ==
    ("delete" \in DOMAIN thr /\ thr["delete"].status = 200) =>
        LET id == thr["delete"].job_id
        IN  /\ id \notin DOMAIN jobs
            /\ VideoFile(id) \notin DOMAIN disk
            /\ {r \in videos : r.id = id} \subseteq thr["delete"].rows

\* C29: the catalog never holds two rows with the same file_hash, also
\* when an upload and a generation thread add the same content at once.
C29_ConcurrentDeduplication ==
    Cardinality({r.file_hash : r \in videos}) = Cardinality(videos)

\* C30: an upload found to be a duplicate removes the file it saved,
\* answers with the id of the original record, whose file is on disk, and
\* leaves a registry entry that existed under that id with its prompt,
\* provider, settings, status and created_at.
C30_DuplicateUploadDisturbsNothing ==
    [][("upload" \notin DOMAIN thr /\ "upload" \in DOMAIN thr'
          /\ thr'["upload"].is_duplicate) =>
        LET id == thr'["upload"].job_id
        IN  /\ VideoFile(UploadJobId) \notin DOMAIN disk'
            /\ \E r \in videos : r.id = id /\ r.file_path \in DOMAIN disk'
            /\ id \in DOMAIN jobs =>
                  /\ id \in DOMAIN jobs'
                  /\ jobs'[id].prompt = jobs[id].prompt
                  /\ jobs'[id].provider = jobs[id].provider
                  /\ jobs'[id].settings = jobs[id].settings
                  /\ jobs'[id].status = jobs[id].status
                  /\ jobs'[id].created_at = jobs[id].created_at]_vars

=============================================================================
